---------------------------- MODULE Spec2Model ----------------------------
(***************************************************************************)
(* Bookkeeping assistant: the PDF row parser (src/src/pdf_ingest.py,       *)
(* parse_rows and its nested helpers) and the rule classifier              *)
(* (src/src/classify.py).                                                  *)
(*                                                                         *)
(* Python strings are finite sequences of one-character strings, so that   *)
(* upper(), replace(), strip(), substring tests and the regular            *)
(* expressions of the source are computed character by character.          *)
(* A Python value is a record with a tag t: "none", "str", "num", "list".  *)
(***************************************************************************)
EXTENDS Integers, Sequences, FiniteSets, TLC

VARIABLES
    cell,                   \* _parse_amount: the argument s
    amt,                    \* _parse_amount: the returned value, or Pending before the call
    rules,                  \* TransactionClassifier.rules
    transaction,            \* classify: the argument
    rule_idx,               \* classify: the position of the for loop over self.rules
    cls_pc,                 \* classify: "idle", "loop", "returned" or "raised"
    result,                 \* classify: the returned dict
    table_rows,             \* parse_rows: the argument, rows of cells (str or None)
    section_config,         \* parse_rows: the argument
    source,                 \* parse_rows: the argument
    tax_year,               \* parse_rows: the argument
    kwargs,                 \* parse_rows: the keyword arguments of the call
    clean_rows,             \* parse_rows: the pre-cleaned rows, headers dropped
    row_idx,                \* parse_rows: the position of the for loop over clean_rows
    out,                    \* parse_rows: the list of transactions
    last_tx,                \* parse_rows: the position in out of the dict last_tx, 0 for None
    rows_pc,                \* parse_rows: "idle", "call", "loop", "returned" or "raised"
    strip_bbox,             \* validate_table_presence: the argument, (left, top, right, bottom)
    footer_bbox,            \* validate_table_presence: the argument, None or a dict
    crop_lines,             \* validate_table_presence: the lines _extract_horizontal_lines finds in the crop
    crop_rects,             \* validate_table_presence: crop.rects
    header_labels,          \* validate_table_presence: section.get("header_labels", [])
    found_labels,           \* validate_table_presence: the labels whose pattern is found in the text of the header zone
    presence,               \* validate_table_presence: the returned value, or Pending before the call
    extracted_rows,         \* validate_extracted_table: the argument table_rows
    extracted_section,      \* validate_extracted_table: the argument section_config
    type_check,             \* validate_extracted_table: the keyword argument type_check
    extracted_ok,           \* validate_extracted_table: the returned value, or Pending before the call
    profile,                \* parse_pdf: what load_bank_profile(bank) gives, a dict or an exception
    pdf,                    \* parse_pdf: what pdfplumber.open(pdf_path) gives, the pages or an exception
    pdf_tax_year,           \* parse_pdf: the argument tax_year
    transactions,           \* parse_pdf: the list of transactions
    page_num,               \* parse_pdf: the position of the loop over pdf.pages
    page_section_positions, \* parse_pdf: the section headers found on the page
    sec_i,                  \* parse_pdf: the position of the loop over page_section_positions
    notified,               \* parse_pdf: the levels of the messages given to notify
    pdf_pc,                 \* parse_pdf: "idle", "start", "open", "page", "section", "parsing", "returned" or "raised"
    run_entry,              \* the entry point of the run: "main" of project.py or "ingest_year"
    file_list,              \* main: file_list, ingest_year: pdfs; for each file what ingesting it does
    file_i,                 \* the position of the loop over the files
    ingested,               \* the files whose transactions were taken into the run's list
    run_notified,           \* the levels of the messages the entry point gives to notify
    run_pc,                 \* "idle", "loop", "pipeline", "exported", "exited" or "raised"
    pipe_transactions,      \* run_pipeline: the argument transactions
    rules_file,             \* run_pipeline: the "_rules" list of the file at rules_file
    start_row,              \* run_pipeline: the argument start_row
    pipe_idx,               \* run_pipeline: idx of the loop over the transactions
    ws,                     \* the worksheet of the exporter: the rows written by write_transaction
    totals_row,             \* the row of the totals, 0 while there is none
    pipe_pc,                \* run_pipeline: "idle", "start", "loop", "classifying", "returned" or "raised"
    csv_lines,              \* load_csv: the lines of the file at path, each the list of its cells
    fieldnames,             \* load_csv: the fieldnames of the DictReader
    csv_i,                  \* load_csv: the position of the reader in the lines
    csv_transactions,       \* load_csv: transactions
    csv_pc,                 \* load_csv: "idle", "open", "rows" or "returned"
    ev_rule,                \* evaluate_rule: the argument rule
    ev_transactions,        \* evaluate_rule: the argument transactions, as a list of its elements
    ev_one_shot,            \* evaluate_rule: TRUE when transactions is an iterator, which yields its elements once
    ev_expected,            \* evaluate_rule: the keyword argument expected_matches, None or the indexes
    ev_report,              \* evaluate_rule: the returned report, or Pending before the call
    _root_logic,            \* RuleWizard: self._root_logic
    _category_name,         \* RuleWizard: self._category_name
    _transaction_type,      \* RuleWizard: self._transaction_type
    _rule_id,               \* RuleWizard: self._rule_id
    _priority,              \* RuleWizard: self._priority
    _scope,                 \* RuleWizard: self._scope
    _dual_entry,            \* RuleWizard: self._dual_entry
    _rules,                 \* RuleWizard: self._rules
    finalize_call,          \* the most recent call on the wizard when it is finalize_rule: its arguments, None otherwise
    finalize_result,        \* what that call of finalize_rule returned or raised, Pending otherwise
    rules_document,         \* RuleLoader: what the file at self.path holds, or that there is no file
    loader_rules,           \* RuleLoader: self.rules
    load_outcome,           \* RuleLoader.load: what the most recent call returned or raised, Pending before it
    get_rules_outcome,      \* RuleLoader.get_rules: what the call made last of all calls returned or raised, Pending otherwise
    rules_doc,              \* run_wizard: rules_doc, the document read by load_rules
    wizard_rule,            \* run_wizard: rule, the dict that finalize_rule built
    validation_result,      \* run_wizard: validation_result
    wizard_report,          \* run_wizard: match_report
    gen_pc,                 \* run_wizard: "idle", "start", "intent", "items", "dual", "finalize", "checks", "save", "saved", "returned" or "raised"
    dry_rule,               \* the rule given to both evaluators
    dry_tx,                 \* the transaction given to both evaluators
    dry_run_verdict,        \* what rule_generator's _evaluate_rule_items gives for them, Pending before the call
    classifier_verdict,     \* what TransactionClassifier._evaluate_rule gives for them, Pending before the call
    footer_page,            \* get_table_footer_bbox: the page, its width, the matches of footer_text and the horizontal segments on it
    search_area_bbox,       \* get_table_footer_bbox: the argument, (left, top, right, bottom)
    header_x_range,         \* get_table_footer_bbox: the argument, None or (x0, x1)
    footer_returned,        \* get_table_footer_bbox: the returned value, or Pending before the call
    win_page,               \* parse_pdf: the page of the loop over pdf.pages, what is drawn and written on it
    win_bank,               \* parse_pdf: source_name
    win_positions,          \* parse_pdf: page_section_positions of the page, sorted by top
    win_i,                  \* parse_pdf: the position of the loop over page_section_positions
    start_y,                \* parse_pdf: start_y of the section
    max_y,                  \* parse_pdf: max_y of the section
    end_y,                  \* parse_pdf: end_y of the section
    table_edges,            \* parse_pdf: table_edges of the section, None or the dict
    crop_box,               \* parse_pdf: crop_box of the section, None before it is set
    cropped,                \* the boxes passed to crop by parse_pdf and its helpers for the page, in order
    win_pc                  \* parse_pdf: "idle", "section", "footer", "window", "presence", "edges", "done" or "raised"

amountVars == <<cell, amt>>
classifyVars == <<rules, transaction, rule_idx, cls_pc, result>>
rowsVars == <<table_rows, section_config, source, tax_year, kwargs,
              clean_rows, row_idx, out, last_tx, rows_pc>>
presenceVars == <<strip_bbox, footer_bbox, crop_lines, crop_rects, header_labels,
                  found_labels, presence>>
extractedVars == <<extracted_rows, extracted_section, type_check, extracted_ok>>
pdfVars == <<profile, pdf, pdf_tax_year, transactions, page_num,
             page_section_positions, sec_i, notified, pdf_pc>>
runVars == <<run_entry, file_list, file_i, ingested, run_notified, run_pc>>
pipelineVars == <<pipe_transactions, rules_file, start_row, pipe_idx, ws,
                  totals_row, pipe_pc>>
loadcsvVars == <<csv_lines, fieldnames, csv_i, csv_transactions, csv_pc>>
evaluateVars == <<ev_rule, ev_transactions, ev_one_shot, ev_expected, ev_report>>
wizardVars == <<_root_logic, _category_name, _transaction_type, _rule_id,
                _priority, _scope, _dual_entry, _rules, finalize_call,
                finalize_result>>
loaderVars == <<rules_document, loader_rules, load_outcome, get_rules_outcome>>
rulegenVars == <<rules_doc, wizard_rule, validation_result, wizard_report, gen_pc>>
agreeVars == <<dry_rule, dry_tx, dry_run_verdict, classifier_verdict>>
footerVars == <<footer_page, search_area_bbox, header_x_range, footer_returned>>
windowVars == <<win_page, win_bank, win_positions, win_i, start_y, max_y,
                end_y, table_edges, crop_box, cropped, win_pc>>
vars == <<amountVars, classifyVars, rowsVars, presenceVars,
          extractedVars, pdfVars, runVars, pipelineVars, loadcsvVars,
          evaluateVars, wizardVars, loaderVars, rulegenVars, agreeVars,
          footerVars, windowVars>>

\* What the actions of one part leave alone: the state of the other parts.
otherThanAmount == <<classifyVars, rowsVars, presenceVars, extractedVars, pdfVars,
                     runVars, pipelineVars, loadcsvVars, evaluateVars, wizardVars,
                     loaderVars, rulegenVars, agreeVars, footerVars, windowVars>>
otherThanClassify == <<amountVars, rowsVars, presenceVars, extractedVars, pdfVars,
                       runVars, pipelineVars, loadcsvVars, evaluateVars, wizardVars,
                       loaderVars, rulegenVars, agreeVars, footerVars, windowVars>>
otherThanRows == <<amountVars, classifyVars, presenceVars, extractedVars, pdfVars,
                   runVars, pipelineVars, loadcsvVars, evaluateVars, wizardVars,
                   loaderVars, rulegenVars, agreeVars, footerVars, windowVars>>
otherThanPresence == <<amountVars, classifyVars, rowsVars, extractedVars, pdfVars,
                       runVars, pipelineVars, loadcsvVars, evaluateVars, wizardVars,
                       loaderVars, rulegenVars, agreeVars, footerVars, windowVars>>
otherThanExtracted == <<amountVars, classifyVars, rowsVars, presenceVars, pdfVars,
                        runVars, pipelineVars, loadcsvVars, evaluateVars, wizardVars,
                        loaderVars, rulegenVars, agreeVars, footerVars, windowVars>>
otherThanPdf == <<amountVars, classifyVars, presenceVars, extractedVars, runVars,
                  pipelineVars, loadcsvVars, evaluateVars, wizardVars,
                  loaderVars, rulegenVars, agreeVars, footerVars, windowVars>>
otherThanRun == <<amountVars, classifyVars, rowsVars, presenceVars,
                  extractedVars, pdfVars, pipelineVars, loadcsvVars,
                  evaluateVars, wizardVars, loaderVars, rulegenVars, agreeVars,
                  footerVars, windowVars>>
otherThanPipeline == <<amountVars, rowsVars, presenceVars, extractedVars, pdfVars,
                       runVars, loadcsvVars, evaluateVars, wizardVars, loaderVars,
                       rulegenVars, agreeVars, footerVars, windowVars>>
otherThanLoadcsv == <<amountVars, classifyVars, rowsVars, presenceVars,
                      extractedVars, pdfVars, runVars, pipelineVars, evaluateVars,
                      wizardVars, loaderVars, rulegenVars, agreeVars, footerVars,
                      windowVars>>
otherThanEvaluate == <<amountVars, classifyVars, rowsVars, presenceVars,
                       extractedVars, pdfVars, runVars, pipelineVars, loadcsvVars,
                       wizardVars, loaderVars, rulegenVars, agreeVars, footerVars,
                       windowVars>>
otherThanWizard == <<amountVars, classifyVars, rowsVars, presenceVars,
                     extractedVars, pdfVars, runVars, pipelineVars, loadcsvVars,
                     evaluateVars, loaderVars, rulegenVars, agreeVars, footerVars,
                     windowVars>>
otherThanLoader == <<amountVars, classifyVars, rowsVars, presenceVars,
                     extractedVars, pdfVars, runVars, pipelineVars, loadcsvVars,
                     evaluateVars, wizardVars, rulegenVars, agreeVars, footerVars,
                     windowVars>>
otherThanRulegen == <<amountVars, classifyVars, rowsVars, presenceVars,
                      extractedVars, pdfVars, runVars, pipelineVars, loadcsvVars,
                      evaluateVars, agreeVars, footerVars, windowVars>>
otherThanAgree == <<amountVars, classifyVars, rowsVars, presenceVars,
                    extractedVars, pdfVars, runVars, pipelineVars, loadcsvVars,
                    evaluateVars, wizardVars, loaderVars, rulegenVars, footerVars,
                    windowVars>>
otherThanFooter == <<amountVars, classifyVars, rowsVars, presenceVars,
                     extractedVars, pdfVars, runVars, pipelineVars, loadcsvVars,
                     evaluateVars, wizardVars, loaderVars, rulegenVars, agreeVars,
                     windowVars>>
otherThanWindow == <<amountVars, classifyVars, rowsVars, extractedVars, pdfVars,
                     runVars, pipelineVars, loadcsvVars, evaluateVars, wizardVars,
                     loaderVars, rulegenVars, agreeVars>>

(***************************************************************************)
(* Bounds of the model.                                                    *)
(***************************************************************************)
MaxCellLen == 4
MaxRules == 3
MaxRows == 3

(***************************************************************************)
(* Python values.                                                          *)
(***************************************************************************)
None == [t |-> "none"]
Pending == [t |-> "pending"]

(***************************************************************************)
(* Strings.                                                                *)
(***************************************************************************)
LowerLetters == <<"a","b","c","d","e","f","g","h","i","j","k","l","m","n","o","p","q","r","s","t","u","v","w","x","y","z">>
UpperLetters == <<"A","B","C","D","E","F","G","H","I","J","K","L","M","N","O","P","Q","R","S","T","U","V","W","X","Y","Z">>
DigitChars == <<"0","1","2","3","4","5","6","7","8","9">>

\* The character U+2212 (unicode minus), written as one atom.
UnicodeMinus == "U+2212"

Whitespace == {" ", "\t", "\n"}

IsDigit(c) == \E i \in 1..10 : DigitChars[i] = c
DigitVal(c) == (CHOOSE i \in 1..10 : DigitChars[i] = c) - 1
IsUpperLetter(c) == \E i \in 1..26 : UpperLetters[i] = c
IsLowerLetter(c) == \E i \in 1..26 : LowerLetters[i] = c
\* \w of the re module, for the characters of the model
IsWordChar(c) == IsDigit(c) \/ IsUpperLetter(c) \/ IsLowerLetter(c) \/ c = "_"

UpperChar(c) ==
    IF IsLowerLetter(c) THEN UpperLetters[CHOOSE i \in 1..26 : LowerLetters[i] = c] ELSE c
LowerChar(c) ==
    IF IsUpperLetter(c) THEN LowerLetters[CHOOSE i \in 1..26 : UpperLetters[i] = c] ELSE c

\* str.upper(), str.lower()
Upper(s) == [i \in 1..Len(s) |-> UpperChar(s[i])]
Lower(s) == [i \in 1..Len(s) |-> LowerChar(s[i])]

\* s[a..b] as Python slices do: empty when the range is empty
Slice(s, a, b) == IF a > b THEN <<>> ELSE SubSeq(s, a, b)

\* s.startswith(p), s.endswith(p)
StartsWith(s, p) == Len(p) <= Len(s) /\ Slice(s, 1, Len(p)) = p
EndsWith(s, p) == Len(p) <= Len(s) /\ Slice(s, Len(s) - Len(p) + 1, Len(s)) = p

\* p in s
IsSubstr(p, s) == \E i \in 1..(Len(s) + 1) : StartsWith(Slice(s, i, Len(s)), p)

\* str.strip()
RECURSIVE LStrip(_)
LStrip(s) == IF s # <<>> /\ s[1] \in Whitespace THEN LStrip(Tail(s)) ELSE s
RECURSIVE RStrip(_)
RStrip(s) ==
    IF s # <<>> /\ s[Len(s)] \in Whitespace THEN RStrip(Slice(s, 1, Len(s) - 1)) ELSE s
Strip(s) == RStrip(LStrip(s))

\* s.replace(p, r) for a non-empty p: leftmost occurrences, not overlapping
RECURSIVE Replace(_, _, _)
Replace(s, p, r) ==
    IF s = <<>> THEN <<>>
    ELSE IF StartsWith(s, p) THEN r \o Replace(Slice(s, Len(p) + 1, Len(s)), p, r)
    ELSE <<s[1]>> \o Replace(Tail(s), p, r)

\* All strings over alphabet S of length at most n
StringsUpTo(S, n) == UNION {[1..k -> S] : k \in 0..n}

(***************************************************************************)
(* float: a decimal number, kept exactly.  frac holds the digits after the *)
(* point without trailing zeros.  Zero has neg = FALSE (-0.0 == 0.0).      *)
(***************************************************************************)
RECURSIVE DigitsValue(_)
DigitsValue(ds) ==
    IF ds = <<>> THEN 0 ELSE 10 * DigitsValue(Slice(ds, 1, Len(ds) - 1)) + DigitVal(ds[Len(ds)])

RECURSIVE DropTrailingZeros(_)
DropTrailingZeros(ds) ==
    IF ds # <<>> /\ ds[Len(ds)] = "0" THEN DropTrailingZeros(Slice(ds, 1, Len(ds) - 1)) ELSE ds

Float(neg, whole, frac) ==
    LET w == DigitsValue(whole)
        f == DropTrailingZeros(frac)
    IN  [t |-> "num", neg |-> (neg /\ ~(w = 0 /\ f = <<>>)), whole |-> w, frac |-> f]

IsZero(v) == v.whole = 0 /\ v.frac = <<>>
IsNegative(v) == v.t = "num" /\ v.neg
IsPositive(v) == v.t = "num" /\ ~v.neg /\ ~IsZero(v)
\* a slip: the sign is left as the token wrote it
NegAbsKeepsSign(v) == v
\* -abs(v)
NegAbs(v) == [v EXCEPT !.neg = ~IsZero(v)]

(***************************************************************************)
(* _AMT_TOKEN = re.compile(r"-?\d+(?:\.\d+)?") and its search()            *)
(***************************************************************************)
\* the last index of the run of digits that starts at j
RECURSIVE DigitRunEnd(_, _)
DigitRunEnd(s, j) ==
    IF j + 1 <= Len(s) /\ IsDigit(s[j + 1]) THEN DigitRunEnd(s, j + 1) ELSE j

AmtTokenStartsAt(s, i) ==
    \/ IsDigit(s[i])
    \/ s[i] = "-" /\ i + 1 <= Len(s) /\ IsDigit(s[i + 1])

\* _AMT_TOKEN.search(s): None, or float(m.group(0)) of the leftmost match
AmtTokenSearch(s) ==
    IF ~\E i \in 1..Len(s) : AmtTokenStartsAt(s, i) THEN None
    ELSE
        LET i == CHOOSE k \in 1..Len(s) :
                    AmtTokenStartsAt(s, k) /\ \A j \in 1..(k - 1) : ~AmtTokenStartsAt(s, j)
            neg == s[i] = "-"
            d0 == IF neg THEN i + 1 ELSE i
            d1 == DigitRunEnd(s, d0)
            hasFrac == d1 + 2 <= Len(s) /\ s[d1 + 1] = "." /\ IsDigit(s[d1 + 2])
            f1 == IF hasFrac THEN DigitRunEnd(s, d1 + 2) ELSE d1
        IN  Float(neg, Slice(s, d0, d1), IF hasFrac THEN Slice(s, d1 + 2, f1) ELSE <<>>)

(***************************************************************************)
(* parse_rows._parse_amount                                                *)
(***************************************************************************)
_parse_amount(s) ==
    IF s = <<>> THEN None
    ELSE
        LET s_upper == Strip(Replace(Replace(Replace(Upper(s), <<"$">>, <<>>),
                                             <<",">>, <<>>),
                                     <<UnicodeMinus>>, <<"-">>))
            is_credit == IsSubstr(<<"C","R">>, s_upper)
            s_clean == Strip(Replace(Replace(s_upper, <<"C","R">>, <<>>), <<"D","R">>, <<>>))
        IN  IF StartsWith(s_clean, <<"(">>) /\ EndsWith(s_clean, <<")">>)
            THEN LET inner == Strip(Slice(s_clean, 2, Len(s_clean) - 1))
                     m == AmtTokenSearch(inner)
                 IN  IF m = None THEN None ELSE NegAbs(m)
            ELSE LET m == AmtTokenSearch(s_clean)
                 IN  IF m = None THEN None
                     ELSE IF is_credit THEN NegAbs(m)
                     ELSE m

(***************************************************************************)
(* The state of a part of the program that is not running.                 *)
(***************************************************************************)
IdleAmount == cell = <<>> /\ amt = Pending
IdleClassify ==
    /\ rules = <<>> /\ transaction = None /\ rule_idx = 0
    /\ cls_pc = "idle" /\ result = None
IdleRows ==
    /\ table_rows = <<>> /\ section_config = << >> /\ source = "" /\ tax_year = <<>>
    /\ kwargs = << >> /\ clean_rows = <<>> /\ row_idx = 0 /\ out = <<>>
    /\ last_tx = 0 /\ rows_pc = "idle"
IdlePresence ==
    /\ strip_bbox = <<>> /\ footer_bbox = None /\ crop_lines = <<>> /\ crop_rects = <<>>
    /\ header_labels = <<>> /\ found_labels = {} /\ presence = Pending
IdleExtracted ==
    /\ extracted_rows = <<>> /\ extracted_section = << >> /\ type_check = ""
    /\ extracted_ok = Pending
IdlePdf ==
    /\ profile = None /\ pdf = None /\ pdf_tax_year = 0 /\ transactions = <<>>
    /\ page_num = 0 /\ page_section_positions = <<>> /\ sec_i = 0
    /\ notified = <<>> /\ pdf_pc = "idle"
IdleRun ==
    /\ run_entry = "" /\ file_list = <<>> /\ file_i = 0 /\ ingested = <<>>
    /\ run_notified = <<>> /\ run_pc = "idle"
IdlePipeline ==
    /\ pipe_transactions = <<>> /\ rules_file = <<>> /\ start_row = 0 /\ pipe_idx = 0
    /\ ws = << >> /\ totals_row = 0 /\ pipe_pc = "idle"
IdleLoadcsv ==
    /\ csv_lines = <<>> /\ fieldnames = <<>> /\ csv_i = 0 /\ csv_transactions = <<>>
    /\ csv_pc = "idle"
IdleEvaluate ==
    /\ ev_rule = None /\ ev_transactions = <<>> /\ ev_one_shot = FALSE
    /\ ev_expected = None /\ ev_report = Pending
IdleWizard ==
    /\ _root_logic = "" /\ _category_name = None /\ _transaction_type = None
    /\ _rule_id = None /\ _priority = None /\ _scope = None /\ _dual_entry = None
    /\ _rules = <<>> /\ finalize_call = None /\ finalize_result = Pending
IdleLoader ==
    /\ rules_document = None /\ loader_rules = <<>> /\ load_outcome = Pending
    /\ get_rules_outcome = Pending
IdleRulegen ==
    /\ rules_doc = None /\ wizard_rule = None /\ validation_result = None
    /\ wizard_report = None /\ gen_pc = "idle"
IdleAgree ==
    /\ dry_rule = None /\ dry_tx = None /\ dry_run_verdict = Pending
    /\ classifier_verdict = Pending
IdleFooter ==
    /\ footer_page = None /\ search_area_bbox = <<>> /\ header_x_range = None
    /\ footer_returned = Pending
IdleWindow ==
    /\ win_page = None /\ win_bank = "" /\ win_positions = <<>> /\ win_i = 0
    /\ start_y = 0 /\ max_y = 0 /\ end_y = 0 /\ table_edges = None /\ crop_box = None
    /\ cropped = <<>> /\ win_pc = "idle"

IdleOtherThanAmount ==
    /\ IdleClassify
    /\ IdleRows
    /\ IdlePresence
    /\ IdleExtracted
    /\ IdlePdf
    /\ IdleRun
    /\ IdlePipeline
    /\ IdleLoadcsv
    /\ IdleEvaluate
    /\ IdleWizard
    /\ IdleLoader
    /\ IdleRulegen
    /\ IdleAgree
    /\ IdleFooter
    /\ IdleWindow
IdleOtherThanClassify ==
    /\ IdleAmount
    /\ IdleRows
    /\ IdlePresence
    /\ IdleExtracted
    /\ IdlePdf
    /\ IdleRun
    /\ IdlePipeline
    /\ IdleLoadcsv
    /\ IdleEvaluate
    /\ IdleWizard
    /\ IdleLoader
    /\ IdleRulegen
    /\ IdleAgree
    /\ IdleFooter
    /\ IdleWindow
IdleOtherThanRows ==
    /\ IdleAmount
    /\ IdleClassify
    /\ IdlePresence
    /\ IdleExtracted
    /\ IdlePdf
    /\ IdleRun
    /\ IdlePipeline
    /\ IdleLoadcsv
    /\ IdleEvaluate
    /\ IdleWizard
    /\ IdleLoader
    /\ IdleRulegen
    /\ IdleAgree
    /\ IdleFooter
    /\ IdleWindow
IdleOtherThanPresence ==
    /\ IdleAmount
    /\ IdleClassify
    /\ IdleRows
    /\ IdleExtracted
    /\ IdlePdf
    /\ IdleRun
    /\ IdlePipeline
    /\ IdleLoadcsv
    /\ IdleEvaluate
    /\ IdleWizard
    /\ IdleLoader
    /\ IdleRulegen
    /\ IdleAgree
    /\ IdleFooter
    /\ IdleWindow
IdleOtherThanExtracted ==
    /\ IdleAmount
    /\ IdleClassify
    /\ IdleRows
    /\ IdlePresence
    /\ IdlePdf
    /\ IdleRun
    /\ IdlePipeline
    /\ IdleLoadcsv
    /\ IdleEvaluate
    /\ IdleWizard
    /\ IdleLoader
    /\ IdleRulegen
    /\ IdleAgree
    /\ IdleFooter
    /\ IdleWindow
IdleOtherThanPdf ==
    /\ IdleAmount
    /\ IdleClassify
    /\ IdlePresence
    /\ IdleExtracted
    /\ IdleRun
    /\ IdlePipeline
    /\ IdleLoadcsv
    /\ IdleEvaluate
    /\ IdleWizard
    /\ IdleLoader
    /\ IdleRulegen
    /\ IdleAgree
    /\ IdleFooter
    /\ IdleWindow
IdleOtherThanRun ==
    /\ IdleAmount
    /\ IdleClassify
    /\ IdleRows
    /\ IdlePresence
    /\ IdleExtracted
    /\ IdlePdf
    /\ IdlePipeline
    /\ IdleLoadcsv
    /\ IdleEvaluate
    /\ IdleWizard
    /\ IdleLoader
    /\ IdleRulegen
    /\ IdleAgree
    /\ IdleFooter
    /\ IdleWindow
IdleOtherThanPipeline ==
    /\ IdleAmount
    /\ IdleRows
    /\ IdlePresence
    /\ IdleExtracted
    /\ IdlePdf
    /\ IdleRun
    /\ IdleLoadcsv
    /\ IdleEvaluate
    /\ IdleWizard
    /\ IdleLoader
    /\ IdleRulegen
    /\ IdleAgree
    /\ IdleFooter
    /\ IdleWindow
IdleOtherThanLoadcsv ==
    /\ IdleAmount
    /\ IdleClassify
    /\ IdleRows
    /\ IdlePresence
    /\ IdleExtracted
    /\ IdlePdf
    /\ IdleRun
    /\ IdlePipeline
    /\ IdleEvaluate
    /\ IdleWizard
    /\ IdleLoader
    /\ IdleRulegen
    /\ IdleAgree
    /\ IdleFooter
    /\ IdleWindow
IdleOtherThanEvaluate ==
    /\ IdleAmount
    /\ IdleClassify
    /\ IdleRows
    /\ IdlePresence
    /\ IdleExtracted
    /\ IdlePdf
    /\ IdleRun
    /\ IdlePipeline
    /\ IdleLoadcsv
    /\ IdleWizard
    /\ IdleLoader
    /\ IdleRulegen
    /\ IdleAgree
    /\ IdleFooter
    /\ IdleWindow
IdleOtherThanWizard ==
    /\ IdleAmount
    /\ IdleClassify
    /\ IdleRows
    /\ IdlePresence
    /\ IdleExtracted
    /\ IdlePdf
    /\ IdleRun
    /\ IdlePipeline
    /\ IdleLoadcsv
    /\ IdleEvaluate
    /\ IdleLoader
    /\ IdleRulegen
    /\ IdleAgree
    /\ IdleFooter
    /\ IdleWindow
IdleOtherThanLoader ==
    /\ IdleAmount
    /\ IdleClassify
    /\ IdleRows
    /\ IdlePresence
    /\ IdleExtracted
    /\ IdlePdf
    /\ IdleRun
    /\ IdlePipeline
    /\ IdleLoadcsv
    /\ IdleEvaluate
    /\ IdleWizard
    /\ IdleRulegen
    /\ IdleAgree
    /\ IdleFooter
    /\ IdleWindow
IdleOtherThanRulegen ==
    /\ IdleAmount
    /\ IdleClassify
    /\ IdleRows
    /\ IdlePresence
    /\ IdleExtracted
    /\ IdlePdf
    /\ IdleRun
    /\ IdlePipeline
    /\ IdleLoadcsv
    /\ IdleEvaluate
    /\ IdleAgree
    /\ IdleFooter
    /\ IdleWindow
IdleOtherThanAgree ==
    /\ IdleAmount
    /\ IdleClassify
    /\ IdleRows
    /\ IdlePresence
    /\ IdleExtracted
    /\ IdlePdf
    /\ IdleRun
    /\ IdlePipeline
    /\ IdleLoadcsv
    /\ IdleEvaluate
    /\ IdleWizard
    /\ IdleLoader
    /\ IdleRulegen
    /\ IdleFooter
    /\ IdleWindow
IdleOtherThanFooter ==
    /\ IdleAmount
    /\ IdleClassify
    /\ IdleRows
    /\ IdlePresence
    /\ IdleExtracted
    /\ IdlePdf
    /\ IdleRun
    /\ IdlePipeline
    /\ IdleLoadcsv
    /\ IdleEvaluate
    /\ IdleWizard
    /\ IdleLoader
    /\ IdleRulegen
    /\ IdleAgree
    /\ IdleWindow
IdleOtherThanWindow ==
    /\ IdleAmount
    /\ IdleClassify
    /\ IdleRows
    /\ IdleExtracted
    /\ IdlePdf
    /\ IdleRun
    /\ IdlePipeline
    /\ IdleLoadcsv
    /\ IdleEvaluate
    /\ IdleWizard
    /\ IdleLoader
    /\ IdleRulegen
    /\ IdleAgree

(***************************************************************************)
(* Python values of the classifier: strings, floats, lists, None.          *)
(***************************************************************************)
Str(chars) == [t |-> "str", s |-> chars]
List(items) == [t |-> "list", items |-> items]

\* the float with the given number of hundredths, e.g. Cents(450) is 4.5
RECURSIVE NatDigits(_)
NatDigits(n) ==
    IF n < 10 THEN <<DigitChars[n + 1]>> ELSE NatDigits(n \div 10) \o <<DigitChars[(n % 10) + 1]>>
Abs(n) == IF n < 0 THEN -n ELSE n
Cents(n) ==
    Float(n < 0, NatDigits(Abs(n) \div 100),
          <<DigitChars[((Abs(n) % 100) \div 10) + 1], DigitChars[(Abs(n) % 10) + 1]>>)

\* a float in hundredths, for comparisons (the floats of the model have at
\* most two digits after the point)
Hundredths(v) ==
    LET f == v.frac \o <<"0", "0">>
        m == 100 * v.whole + 10 * DigitVal(f[1]) + DigitVal(f[2])
    IN  IF v.neg THEN -m ELSE m

\* bool(x)
Truthy(x) ==
    CASE x.t = "none" -> FALSE
      [] x.t = "str"  -> x.s # <<>>
      [] x.t = "num"  -> ~IsZero(x)
      [] x.t = "list" -> x.items # <<>>

\* repr of a float: at least one digit after the point
FloatRepr(v) ==
    (IF v.neg THEN <<"-">> ELSE <<>>) \o NatDigits(v.whole) \o <<".">>
        \o (IF v.frac = <<>> THEN <<"0">> ELSE v.frac)

\* str(x), for None, strings and floats
PyStr(x) ==
    CASE x.t = "none" -> <<"N","o","n","e">>
      [] x.t = "str"  -> x.s
      [] x.t = "num"  -> FloatRepr(x)

Err == [t |-> "error"]

\* float(x): a float is itself; a string is parsed when it is a plain decimal
\* "[-]digits[.digits]", surrounding blanks allowed (ValueError otherwise);
\* None and lists raise TypeError
ToFloat(x) ==
    CASE x.t = "num" -> x
      [] x.t = "str" ->
            LET s == Strip(x.s)
                neg == s # <<>> /\ s[1] = "-"
                body == IF neg THEN Tail(s) ELSE s
                dots == {i \in 1..Len(body) : body[i] = "."}
                whole == IF dots = {} THEN body
                         ELSE Slice(body, 1, (CHOOSE i \in dots : TRUE) - 1)
                frac == IF dots = {} THEN <<>>
                        ELSE Slice(body, (CHOOSE i \in dots : TRUE) + 1, Len(body))
            IN  IF /\ Cardinality(dots) <= 1
                   /\ whole # <<>>
                   /\ \A i \in 1..Len(whole) : IsDigit(whole[i])
                   /\ \A i \in 1..Len(frac) : IsDigit(frac[i])
                THEN Float(neg, whole, frac)
                ELSE Err
      [] OTHER -> Err

(***************************************************************************)
(* OPERATORS of classify.py.  Each operator returns "true" or "false", or  *)
(* "exception" where the lambda raises (caught by _apply_operator).        *)
(***************************************************************************)
OPERATORS == {"CONTAINS", "STARTS_WITH", "EQUALS", "REGEX", "GREATER_THAN",
              "GREATER_THAN_OR_EQUAL_TO", "LESS_THAN", "LESS_THAN_OR_EQUAL_TO", "BETWEEN"}

Bool(b) == IF b THEN "true" ELSE "false"

\* (s or "")
OrEmpty(s) == IF Truthy(s) THEN s ELSE Str(<<>>)

\* float(x) in hundredths, or the exception that float(x) raises
Number(n) == [ok |-> TRUE, n |-> n]
NotANumber == [ok |-> FALSE]
HundredthsOrError(f) == IF f = Err THEN NotANumber ELSE Number(Hundredths(f))
NumOf(x) == HundredthsOrError(ToFloat(x))

\* v.lower() in s.lower(), s being (field or "")
ContainsOp(s, v) ==
    IF v.t # "str" \/ s.t # "str" THEN "exception" ELSE Bool(IsSubstr(Lower(v.s), Lower(s.s)))
\* s.lower().startswith(v.lower())
StartsWithOp(s, v) ==
    IF v.t # "str" \/ s.t # "str" THEN "exception" ELSE Bool(StartsWith(Lower(s.s), Lower(v.s)))
\* str(a).lower() == str(v).lower(), for None, strings and floats
EqualsOp(a, v) ==
    IF a.t = "list" \/ v.t = "list" THEN "exception" ELSE Bool(Lower(PyStr(a)) = Lower(PyStr(v)))
\* re.search(pattern, s) is not None, for a pattern without metacharacters
RegexOp(s, pattern) ==
    IF pattern.t # "str" \/ s.t # "str" THEN "exception" ELSE Bool(IsSubstr(pattern.s, s.s))
\* float(n) <op> float(v)
CompareOp(operator, n, v) ==
    IF ~n.ok \/ ~v.ok THEN "exception"
    ELSE CASE operator = "GREATER_THAN" -> Bool(n.n > v.n)
           [] operator = "GREATER_THAN_OR_EQUAL_TO" -> Bool(n.n >= v.n)
           [] operator = "LESS_THAN" -> Bool(n.n < v.n)
           [] operator = "LESS_THAN_OR_EQUAL_TO" -> Bool(n.n <= v.n)
\* lo <= n <= hi: float(rng[1]) is taken only when lo <= n holds
BetweenNums(lo, n, hi) ==
    IF ~lo.ok \/ ~n.ok THEN "exception"
    ELSE IF ~(lo.n <= n.n) THEN "false"
    ELSE IF ~hi.ok THEN "exception"
    ELSE Bool(n.n <= hi.n)
\* float(rng[0]) <= float(n) <= float(rng[1])
BetweenOp(n, rng) ==
    IF rng.t # "list" THEN "exception"
    ELSE IF Len(rng.items) < 2 THEN "exception"
    ELSE BetweenNums(NumOf(rng.items[1]), n, NumOf(rng.items[2]))

OperatorFunc(operator, a, v) ==
    CASE operator = "CONTAINS" -> ContainsOp(OrEmpty(a), v)
      [] operator = "STARTS_WITH" -> StartsWithOp(OrEmpty(a), v)
      [] operator = "EQUALS" -> EqualsOp(a, v)
      [] operator = "REGEX" -> RegexOp(OrEmpty(a), v)
      [] operator = "BETWEEN" -> BetweenOp(NumOf(a), v)
      [] OTHER -> CompareOp(operator, NumOf(a), NumOf(v))

\* dict.get(key): None when the key is missing
Get(d, key) == IF key \in DOMAIN d THEN d[key] ELSE None

\* try: return func(field_value, value)   except Exception: return False
CaughtException(r) == IF r = "exception" THEN "false" ELSE r

(***************************************************************************)
(* TransactionClassifier._apply_operator: "true", "false", or "raise" when *)
(* the ValueError for an unsupported operator leaves the method.           *)
(***************************************************************************)
_apply_operator(cond, tx) ==
    IF cond.operator \notin OPERATORS THEN "raise"
    ELSE CaughtException(OperatorFunc(cond.operator, Get(tx, cond.field), cond.value))

\* all(results) / any(results) for a list of "true"/"false"; a "raise" in
\* the list is the exception that left the evaluation of one of them
AllTrue(results) == \A i \in 1..Len(results) : results[i] = "true"
AnyTrue(results) == \E i \in 1..Len(results) : results[i] = "true"
Raises(results) == \E i \in 1..Len(results) : results[i] = "raise"
Combine(logic, results) ==
    IF Raises(results) THEN "raise"
    ELSE IF logic = "MUST_MATCH_ALL" THEN Bool(AllTrue(results))
    ELSE Bool(AnyTrue(results))

IsGroup(cond) == "group_logic" \in DOMAIN cond

\* [self._apply_operator(sub, transaction) for sub in conds]
ApplyEach(conds, tx) == [i \in 1..Len(conds) |-> _apply_operator(conds[i], tx)]

\* one item of rule["rules"]: a nested group, combined with its own
\* group_logic, or a single condition (the list of that one result)
EvaluateItem(cond, tx) ==
    IF IsGroup(cond) THEN Combine(cond.group_logic, ApplyEach(cond.rules, tx))
    ELSE Combine("MUST_MATCH_ALL", ApplyEach(<<cond>>, tx))

\* rule.get("logic", "MUST_MATCH_ANY"), rule.get("rules", [])
RuleLogic(rule) == IF "logic" \in DOMAIN rule THEN rule.logic ELSE "MUST_MATCH_ANY"
RuleConditions(rule) == IF "rules" \in DOMAIN rule THEN rule.rules ELSE <<>>

EvaluateEach(conditions, tx) == [i \in 1..Len(conditions) |-> EvaluateItem(conditions[i], tx)]

(***************************************************************************)
(* TransactionClassifier._evaluate_rule: every item is evaluated before    *)
(* all()/any() is taken, so one raising item makes the call raise.         *)
(***************************************************************************)
_evaluate_rule(rule, tx) == Combine(RuleLogic(rule), EvaluateEach(RuleConditions(rule), tx))

(***************************************************************************)
(* Rules and transactions of the model.                                    *)
(***************************************************************************)
Cond(field, operator, value) == [field |-> field, operator |-> operator, value |-> value]
Group(group_logic, conds) == [group_logic |-> group_logic, rules |-> conds]
DualEntry(dr, cr) ==
    [DR_COLUMN |-> dr, CR_COLUMN |-> cr, APPLY_PERCENTAGE |-> Cents(100)]

ContainsEsso == Cond("Description", "CONTAINS", Str(<<"e","s","s","o">>))
Contains711 == Cond("Description", "CONTAINS", Str(<<"7","-","1","1">>))
StartsWithTim == Cond("Description", "STARTS_WITH", Str(<<"T","I","M">>))
DebitBetween == Cond("Debit", "BETWEEN", List(<<Cents(2000), Cents(12000)>>))
DebitAtMostSix == Cond("Debit", "LESS_THAN_OR_EQUAL_TO", Cents(600))
\* an operator that OPERATORS does not hold
NotContainsTim == Cond("Description", "NOT_CONTAINS", Str(<<"T","I","M">>))

RuleCoffee ==
    [category_name |-> "Business Coffee", transaction_type |-> "EXPENSE",
     logic |-> "MUST_MATCH_ALL", rules |-> <<StartsWithTim, DebitAtMostSix>>,
     dual_entry |-> DualEntry("T", "F")]
RuleFuel ==
    [category_name |-> "Vehicle Fuel", transaction_type |-> "EXPENSE",
     logic |-> "MUST_MATCH_ALL",
     rules |-> <<Group("MUST_MATCH_ANY", <<ContainsEsso, Contains711>>), DebitBetween>>,
     dual_entry |-> DualEntry("L", "F")]
RuleFuelNotTim ==
    [category_name |-> "Fuel, not coffee", transaction_type |-> "EXPENSE",
     logic |-> "MUST_MATCH_ALL",
     rules |-> <<Group("MUST_MATCH_ANY", <<ContainsEsso, NotContainsTim>>), DebitBetween>>,
     dual_entry |-> DualEntry("L", "F")]
RuleAnyEsso ==
    [category_name |-> "Esso transfer", transaction_type |-> "IGNORE_TRANSACTION",
     logic |-> "MUST_MATCH_ANY", rules |-> <<ContainsEsso>>]
RuleNotTim ==
    [category_name |-> "Not coffee", transaction_type |-> "EXPENSE",
     logic |-> "MUST_MATCH_ANY", rules |-> <<NotContainsTim>>,
     dual_entry |-> DualEntry("V", "F")]
RuleNoConditions ==
    [category_name |-> "No conditions", transaction_type |-> "IGNORE_TRANSACTION",
     logic |-> "MUST_MATCH_ANY", rules |-> <<>>]

RulePool == {RuleCoffee, RuleFuel, RuleFuelNotTim, RuleAnyEsso, RuleNotTim, RuleNoConditions}

Tx(description, debit, credit) ==
    [Description |-> Str(description), Debit |-> debit, Credit |-> credit]

TxPool == {
    Tx(<<"E","S","S","O"," ","C","I","R","C","L","E"," ","K">>, Cents(5000), Str(<<>>)),
    Tx(<<"E","S","S","O">>, Cents(1000), Str(<<>>)),
    Tx(<<"T","I","M"," ","H","O","R","T","O","N","S">>, Cents(450), Str(<<>>)),
    Tx(<<"U","N","K","N","O","W","N">>, Cents(12345), Str(<<>>)),
    Tx(<<"R","E","B","A","T","E">>, Str(<<>>), Cents(500)),
    Tx(<<"7","-","1","1"," ","S","T","O","R","E">>, Cents(0), Cents(2500)),
    [Description |-> Str(<<"E","S","S","O">>)] }

RuleLists == UNION {[1..k -> RulePool] : k \in 0..MaxRules}

(***************************************************************************)
(* TransactionClassifier.classify, one step per iteration of the loop over *)
(* self.rules.                                                             *)
(***************************************************************************)
InitClassify ==
    /\ rules \in RuleLists
    /\ transaction \in TxPool
    /\ rule_idx = 1
    /\ cls_pc = "loop"
    /\ result = None
    /\ IdleOtherThanClassify

\* the rule at rule_idx matches: return its category, type and dual_entry
ClassifyMatch ==
    /\ cls_pc = "loop"
    /\ rule_idx <= Len(rules)
    /\ _evaluate_rule(rules[rule_idx], transaction) = "true"
    /\ result' = [category |-> rules[rule_idx].category_name,
                  transaction_type |-> rules[rule_idx].transaction_type,
                  dual_entry |-> Get(rules[rule_idx], "dual_entry")]
    /\ cls_pc' = "returned"
    /\ UNCHANGED <<rules, transaction, rule_idx>>
    /\ UNCHANGED otherThanClassify

\* the rule does not match: go on with the next rule
ClassifyNoMatch ==
    /\ cls_pc = "loop"
    /\ rule_idx <= Len(rules)
    /\ _evaluate_rule(rules[rule_idx], transaction) = "false"
    /\ rule_idx' = rule_idx + 1
    /\ UNCHANGED <<rules, transaction, cls_pc, result>>
    /\ UNCHANGED otherThanClassify

\* the ValueError of _apply_operator leaves classify
ClassifyRaise ==
    /\ cls_pc = "loop"
    /\ rule_idx <= Len(rules)
    /\ _evaluate_rule(rules[rule_idx], transaction) = "raise"
    /\ cls_pc' = "raised"
    /\ UNCHANGED <<rules, transaction, rule_idx, result>>
    /\ UNCHANGED otherThanClassify

\* the loop ended without a match: the manual review default
ClassifyDefault ==
    /\ cls_pc = "loop"
    /\ rule_idx > Len(rules)
    /\ result' = [category |-> "Unclassified",
                  transaction_type |-> IF Truthy(Get(transaction, "Debit"))
                                       THEN "MANUAL_CR" ELSE "MANUAL_DR",
                  dual_entry |-> None]
    /\ cls_pc' = "returned"
    /\ UNCHANGED <<rules, transaction, rule_idx>>
    /\ UNCHANGED otherThanClassify

NextClassify == ClassifyMatch \/ ClassifyNoMatch \/ ClassifyRaise \/ ClassifyDefault

SpecClassify == InitClassify /\ [][NextClassify]_vars

(***************************************************************************)
(* Amount cells: the documented formats, and every short string over the   *)
(* characters that decide the sign.                                        *)
(***************************************************************************)
AmtAlphabet == {"1", "-", "(", ")", "C", "R", "D", " "}

AmountExamples == {
    <<"$","1",",","2","3","4",".","5","6">>,
    <<"(","1","2","3",".","4","5",")">>,
    <<"1","2","3",".","4","5"," ","C","R">>,
    <<"1","2","3",".","4","5"," ","D","R">>,
    <<"1","2","3",".","4","5"," ","c","r">>,
    <<UnicodeMinus,"1","2",".","5","0">>,
    <<"N","/","A">>,
    <<"-","1","2","3",".","4","5"," ","D","R">>,
    <<"(","5",")"," ","D","R">>,
    <<"C","R"," ","5",".","0","0">> }

AmountCells == AmountExamples \cup StringsUpTo(AmtAlphabet, MaxCellLen)

InitAmount ==
    /\ cell \in AmountCells
    /\ amt = Pending
    /\ IdleOtherThanAmount

\* one call of _parse_amount
ParseAmount ==
    /\ amt = Pending
    /\ amt' = _parse_amount(cell)
    /\ UNCHANGED cell
    /\ UNCHANGED otherThanAmount

NextAmount == ParseAmount

SpecAmount == InitAmount /\ [][NextAmount]_vars

(***************************************************************************)
(* Regular expressions of parse_rows._looks_like_date and _parse_date.     *)
(***************************************************************************)
\* \b before the character at position i (i = Len(s) + 1: at the end)
WordBoundary(s, i) ==
    (i > 1 /\ IsWordChar(s[i - 1])) # (i <= Len(s) /\ IsWordChar(s[i]))

AllDigits(s, from, to) == to <= Len(s) /\ \A k \in from..to : IsDigit(s[k])

\* \b\d{1,2}/\d{1,2}(?:/\d{2,4})?\b matched at i with a digits of month,
\* b digits of day and y digits of year (y = 0: the year group is skipped)
NumericDateAt(s, i, a, b, y) ==
    /\ WordBoundary(s, i)
    /\ AllDigits(s, i, i + a - 1)
    /\ i + a <= Len(s) /\ s[i + a] = "/"
    /\ AllDigits(s, i + a + 1, i + a + b)
    /\ y > 0 => ( /\ i + a + b + 1 <= Len(s) /\ s[i + a + b + 1] = "/"
                  /\ AllDigits(s, i + a + b + 2, i + a + b + 1 + y) )
    /\ WordBoundary(s, i + a + b + (IF y > 0 THEN y + 1 ELSE 0) + 1)

NumericDateMatches(s) ==
    {m \in (1..Len(s)) \X {1, 2} \X {1, 2} \X {0, 2, 3, 4} :
        NumericDateAt(s, m[1], m[2], m[3], m[4])}

\* re.search: the leftmost match, and at that place the first one in the
\* order of backtracking (each quantifier greedy)
FirstMatch(matches) ==
    CHOOSE m \in matches : \A o \in matches :
        \/ m[1] < o[1]
        \/ m[1] = o[1] /\ m[2] > o[2]
        \/ m[1] = o[1] /\ m[2] = o[2] /\ m[3] > o[3]
        \/ m[1] = o[1] /\ m[2] = o[2] /\ m[3] = o[3] /\ m[4] >= o[4]

MonthNames == << <<"J","A","N">>, <<"F","E","B">>, <<"M","A","R">>, <<"A","P","R">>, <<"M","A","Y">>, <<"J","U","N">>,
                <<"J","U","L">>, <<"A","U","G">>, <<"S","E","P">>, <<"O","C","T">>, <<"N","O","V">>, <<"D","E","C">> >>

IsMonthName(w) == \E k \in 1..12 : MonthNames[k] = w
\* mon_map
MonthNumber(w) == CHOOSE k \in 1..12 : MonthNames[k] = w

\* the end of the run of whitespace that starts at j (j - 1 when there is none)
RECURSIVE SpaceRunEnd(_, _)
SpaceRunEnd(s, j) ==
    IF j <= Len(s) /\ s[j] \in Whitespace THEN SpaceRunEnd(s, j + 1) ELSE j - 1

\* where the digits of the day start when
\* \b(?:JAN|...|DEC)\.?\s+ matches at i, 0 when it does not
AlphaDayStart(s, i) ==
    IF ~(WordBoundary(s, i) /\ i + 2 <= Len(s) /\ IsMonthName(Slice(s, i, i + 2))) THEN 0
    ELSE LET afterDot == IF i + 3 <= Len(s) /\ s[i + 3] = "." THEN i + 4 ELSE i + 3
             spaceEnd == SpaceRunEnd(s, afterDot)
         IN  IF spaceEnd < afterDot THEN 0 ELSE spaceEnd + 1

\* \b(?:JAN|...|DEC)\.?\s+\d{1,2}\b matched at i, the day starting at d with
\* b digits
AlphaDateAt(s, i, d, b) ==
    /\ d > 0
    /\ AllDigits(s, d, d + b - 1)
    /\ WordBoundary(s, d + b)

AlphaDateMatches(s) ==
    {m \in (1..Len(s)) \X (0..Len(s)) \X {1, 2} \X {0} :
        m[2] = AlphaDayStart(s, m[1]) /\ AlphaDateAt(s, m[1], m[2], m[3])}

(***************************************************************************)
(* datetime(y, m, d) and strftime("%Y-%m-%d")                              *)
(***************************************************************************)
IsLeapYear(y) == (y % 4 = 0 /\ y % 100 # 0) \/ y % 400 = 0
DaysInMonth(y, m) ==
    IF m = 2 THEN (IF IsLeapYear(y) THEN 29 ELSE 28)
    ELSE IF m \in {4, 6, 9, 11} THEN 30 ELSE 31
\* datetime(y, m, d) does not raise ValueError
ValidDate(y, m, d) ==
    /\ y >= 1 /\ y <= 9999
    /\ m >= 1 /\ m <= 12
    /\ d >= 1 /\ d <= DaysInMonth(y, m)

\* n written with at least w digits
RECURSIVE ZeroPad(_, _)
ZeroPad(ds, w) == IF Len(ds) >= w THEN ds ELSE ZeroPad(<<"0">> \o ds, w)

\* datetime(y, m, d).strftime("%Y-%m-%d"), or None on ValueError; the C
\* library's %Y writes a year below 1000 without leading zeros
IsoDate(y, m, d) ==
    IF ~ValidDate(y, m, d) THEN None
    ELSE Str(NatDigits(y) \o <<"-">> \o ZeroPad(NatDigits(m), 2)
             \o <<"-">> \o ZeroPad(NatDigits(d), 2))

\* the year of a numeric date: two-digit years are 20xx
YearOf(digits, default_year) ==
    IF digits = <<>> THEN default_year
    ELSE IF DigitsValue(digits) < 100 THEN DigitsValue(digits) + 2000
    ELSE DigitsValue(digits)

NumericDate(s, m, default_year) ==
    IsoDate(YearOf(IF m[4] = 0 THEN <<>>
                   ELSE Slice(s, m[1] + m[2] + m[3] + 2, m[1] + m[2] + m[3] + 1 + m[4]),
                   default_year),
            DigitsValue(Slice(s, m[1], m[1] + m[2] - 1)),
            DigitsValue(Slice(s, m[1] + m[2] + 1, m[1] + m[2] + m[3])))

AlphaDate(s, m, default_year) ==
    IsoDate(default_year,
            MonthNumber(Slice(s, m[1], m[1] + 2)),
            DigitsValue(Slice(s, m[2], m[2] + m[3] - 1)))

\* the body of _parse_date on s = raw.strip().upper()
ParseDateUpper(s, default_year) ==
    IF s = <<>> THEN None
    ELSE IF NumericDateMatches(s) # {}
         THEN NumericDate(s, FirstMatch(NumericDateMatches(s)), default_year)
    ELSE IF AlphaDateMatches(s) # {}
         THEN AlphaDate(s, FirstMatch(AlphaDateMatches(s)), default_year)
    ELSE None

(***************************************************************************)
(* parse_rows._parse_date, parse_rows._looks_like_date                     *)
(***************************************************************************)
_parse_date(raw, default_year) == ParseDateUpper(Upper(Strip(raw)), default_year)

LooksLikeDateUpper(s) ==
    s # <<>> /\ (NumericDateMatches(s) # {} \/ AlphaDateMatches(s) # {})

_looks_like_date(s) == LooksLikeDateUpper(Strip(Upper(s)))

(***************************************************************************)
(* parse_rows: the pre-clean of the extracted rows and the header drop     *)
(***************************************************************************)
PyInt(n) == [t |-> "int", n |-> n]

\* a raw row is falsy, or none of its cells is truthy
RowIsBlank(r) == r = <<>> \/ \A k \in 1..Len(r) : ~Truthy(r[k])

\* str(c).replace("\n", " ").strip() if c is not None else ""
CleanCell(c) == IF c = None THEN <<>> ELSE Strip(Replace(c.s, <<"\n">>, <<" ">>))

CleanRow(r) == [k \in 1..Len(r) |-> CleanCell(r[k])]

\* the default of the keyword max_header_rows
DefaultMaxHeaderRows == 2

Min(a, b) == IF a < b THEN a ELSE b
Max(a, b) == IF a > b THEN a ELSE b

\* the keywords parse_rows accepts, and what they are bound to
RowsKeywords == {"rows_only", "max_header_rows"}
RowsOnly(kw) == IF "rows_only" \in DOMAIN kw THEN kw.rows_only ELSE TRUE
MaxHeaderRows(kw) ==
    IF "max_header_rows" \in DOMAIN kw THEN kw.max_header_rows ELSE DefaultMaxHeaderRows

\* a slip: one row more than max_header_rows is dropped
DropOneMore(clean, kw) ==
    IF RowsOnly(kw) THEN clean
    ELSE Slice(clean, Min(Max(0, MaxHeaderRows(kw)) + 1, Len(clean)) + 1, Len(clean))

\* clean_rows[drop_n:] with drop_n = min(max(0, int(max_header_rows)), len(clean_rows))
DropHeaders(clean, kw) ==
    IF RowsOnly(kw) THEN clean
    ELSE Slice(clean, Min(Max(0, MaxHeaderRows(kw)), Len(clean)) + 1, Len(clean))

SectionName(config) ==
    IF "section_name" \in DOMAIN config /\ config.section_name # "" THEN config.section_name
    ELSE IF "name" \in DOMAIN config /\ config.name # "" THEN config.name
    ELSE "Transactions"

Columns(config) == IF "columns" \in DOMAIN config THEN config.columns ELSE << >>

(***************************************************************************)
(* parse_rows._cell, _is_total_or_noise_row, _is_desc_only_continuation    *)
(***************************************************************************)
\* 0 <= idx < len(row) raises TypeError when idx is not a number
BadIndex(idx) == idx # None /\ idx.t # "int"

\* the value of _cell; where BadIndex holds the call raises and has no value,
\* and RowOutcome takes the exception before any value is used
_cell(row, idx) ==
    IF idx = None \/ BadIndex(idx) THEN <<>>
    ELSE IF 0 <= idx.n /\ idx.n < Len(row) THEN row[idx.n + 1] ELSE <<>>

\* the four calls of _cell at the top of _is_desc_only_continuation
CellRaises(cols) ==
    \E key \in {"description", "amount", "transaction_date", "posting_date"} :
        BadIndex(Get(cols, key))

\* " ".join(c for c in row if c)
RECURSIVE JoinCells(_)
JoinCells(row) ==
    IF row = <<>> THEN <<>>
    ELSE IF Head(row) = <<>> THEN JoinCells(Tail(row))
    ELSE IF JoinCells(Tail(row)) = <<>> THEN Head(row)
    ELSE Head(row) \o <<" ">> \o JoinCells(Tail(row))

noise_markers == {
    <<"T","O","T","A","L">>, <<"T","O","T","A","L","S">>, <<"S","U","B","T","O","T","A","L">>, <<"N","E","W"," ","B","A","L","A","N","C","E">>,
    <<"P","R","E","V","I","O","U","S"," ","S","T","A","T","E","M","E","N","T"," ","B","A","L","A","N","C","E">>, <<"S","T","A","T","E","M","E","N","T"," ","B","A","L","A","N","C","E">>, <<"B","A","L","A","N","C","E"," ","F","O","R","W","A","R","D">>,
    <<"T","O","T","A","L"," ","I","N","T","E","R","E","S","T">>, <<"T","O","T","A","L"," ","P","A","Y","M","E","N","T","S">>, <<"T","O","T","A","L"," ","C","R","E","D","I","T","S">>, <<"T","O","T","A","L"," ","C","H","A","R","G","E","S">>,
    <<"T","O","T","A","L"," ","F","E","E","S">>, <<"A","C","C","O","U","N","T"," ","N","U","M","B","E","R">>, <<"P","A","G","E"," ">> }

HasNoiseMarker(joined) == \E m \in noise_markers : IsSubstr(m, joined)

IsNonEmptyCell(c) == c # <<>> /\ Strip(c) # <<>>

\* nonempty = [c for c in row if c and c.strip()];
\* len(nonempty) == 1 and len(nonempty[0]) <= 2
IsShortFragment(nonempty) == Len(nonempty) = 1 /\ Len(nonempty[1]) <= 2

NoiseJoined(joined, row) ==
    \/ joined = <<>>
    \/ HasNoiseMarker(joined)
    \/ IsShortFragment(SelectSeq(row, IsNonEmptyCell))

NothingIsNoise(row) == FALSE

_is_total_or_noise_row(row) == NoiseJoined(Upper(Strip(JoinCells(row))), row)

_is_desc_only_continuation(row, cols) ==
    /\ Strip(_cell(row, Get(cols, "description"))) # <<>>
    /\ _parse_amount(_cell(row, Get(cols, "amount"))) = None
    /\ ~_looks_like_date(_cell(row, Get(cols, "transaction_date")))
    /\ ~_looks_like_date(_cell(row, Get(cols, "posting_date")))

(***************************************************************************)
(* parse_rows: what the body of the loop does with one cleaned row         *)
(***************************************************************************)
\* tx_date_iso, post_date_iso
DateOf(row, idx, year_int) ==
    IF idx = None THEN None ELSE _parse_date(_cell(row, idx), year_int)

NeverMissing(row, cols, year_int) == FALSE

\* tx_date_idx is not None and not tx_date_iso
MissingTxDate(row, cols, year_int) ==
    /\ Get(cols, "transaction_date") # None
    /\ ~Truthy(DateOf(row, Get(cols, "transaction_date"), year_int))

\* which continue the row takes, or "transaction" when it reaches out.append
RowOutcome(row, cols, year_int) ==
    IF _is_total_or_noise_row(row) THEN "noise"
    ELSE IF CellRaises(cols) THEN "raises"
    ELSE IF _is_desc_only_continuation(row, cols) THEN "continuation"
    ELSE IF Strip(_cell(row, Get(cols, "description"))) = <<>> THEN "no_description"
    ELSE IF _parse_amount(_cell(row, Get(cols, "amount"))) = None THEN "no_amount"
    ELSE IF MissingTxDate(row, cols, year_int) THEN "no_date"
    ELSE "transaction"

\* the dict tx
MakeTx(row, cols, year_int, src, section_name) ==
    [transaction_date |-> DateOf(row, Get(cols, "transaction_date"), year_int),
     posting_date |-> DateOf(row, Get(cols, "posting_date"), year_int),
     description |-> Strip(_cell(row, Get(cols, "description"))),
     amount |-> _parse_amount(_cell(row, Get(cols, "amount"))),
     source |-> src,
     section |-> section_name]

\* (last_tx.get("description", "") + " " + extra).strip()
Continued(description, extra) == Strip(description \o <<" ">> \o extra)

AppendToFirst(txs, last, extra) ==
    IF last = 0 \/ extra = <<>> THEN txs
    ELSE [txs EXCEPT ![1].description = Continued(@, extra)]

\* the continuation row's text goes to last_tx, if there is one and the text
\* is not empty
AppendToLast(txs, last, extra) ==
    IF last = 0 \/ extra = <<>> THEN txs
    ELSE [txs EXCEPT ![last].description = Continued(@, extra)]

(***************************************************************************)
(* Calls of parse_rows: tables of extracted rows over four columns         *)
(* (transaction date, posting date, description, amount), the section      *)
(* configurations, the tax years and the keywords.                         *)
(***************************************************************************)
RawRow(tx, post, desc, amount) == <<tx, post, desc, amount>>

RowDec27 == RawRow(Str(<<"D","e","c"," ","2","7">>), Str(<<"D","e","c"," ","2","8">>), Str(<<"T","D"," ","B","A","N","K","L","I","N","E">>), Str(<<"-","5","0","0",".","0","0">>))
RowJan03 == RawRow(Str(<<"J","a","n"," ","0","3">>), Str(<<"1","/","5">>), Str(<<"H","O","M","E","\n","D","E","P","O","T">>), Str(<<"$","1",",","4","5","6",".","7","8">>))
RowFeb29 == RawRow(Str(<<"F","E","B","."," ","2","9">>), None, Str(<<"S","T","O","R","E">>), Str(<<"5",".","0","0"," ","C","R">>))
RowContinuation == RawRow(Str(<<>>), None, Str(<<" ","T","O","R","O","N","T","O"," ","O","N">>), Str(<<>>))
RowTotalFees == RawRow(Str(<<"J","a","n"," ","2","5">>), Str(<<>>), Str(<<"T","o","t","a","l"," ","F","e","e","s">>), Str(<<"1","2",".","3","4">>))
RowFragment == RawRow(None, None, Str(<<"O","N">>), None)
RowHeader == RawRow(Str(<<"T","R","A","N","S"," ","D","A","T","E">>), Str(<<"P","O","S","T"," ","D","A","T","E">>), Str(<<"D","E","S","C","R","I","P","T","I","O","N">>), Str(<<"A","M","O","U","N","T">>))
RowNoDescription == RawRow(Str(<<"1","/","1","5","/","2","4">>), Str(<<>>), Str(<<>>), Str(<<"9",".","9","9">>))
RowNoAmount == RawRow(Str(<<"J","a","n"," ","0","4">>), Str(<<>>), Str(<<"P","E","N","D","I","N","G">>), Str(<<"N","/","A">>))
RowNoDate == RawRow(Str(<<>>), Str(<<>>), Str(<<"I","N","T","E","R","E","S","T">>), Str(<<"(","1",".","0","0",")">>))
RowBlank == RawRow(None, Str(<<>>), None, None)

RowPool == {RowDec27, RowJan03, RowFeb29, RowContinuation, RowTotalFees, RowFragment,
            RowHeader, RowNoDescription, RowNoAmount, RowNoDate, RowBlank}

Tables == UNION {[1..k -> RowPool] : k \in 0..MaxRows}

ColumnsWithDates == [transaction_date |-> PyInt(0), posting_date |-> PyInt(1),
                     description |-> PyInt(2), amount |-> PyInt(3)]
ColumnsWithoutDates == [description |-> PyInt(2), amount |-> PyInt(3)]
ColumnsWithoutAmount == [transaction_date |-> PyInt(0), description |-> PyInt(2)]

ColumnsMistyped == [description |-> PyInt(2), amount |-> Str(<<"3">>)]

SectionWithDates ==
    [section_name |-> "Purchases", match_text |-> "PURCHASES", columns |-> ColumnsWithDates]
SectionPayments ==
    [section_name |-> "Payments", match_text |-> "PAYMENTS", columns |-> ColumnsWithoutDates,
     header_labels |-> <<<<"D","e","s","c","r","i","p","t","i","o","n">>, <<"A","m","o","u","n","t">>>>]
\* the index of the amount column is written as a string
SectionMistyped ==
    [section_name |-> "Fees", match_text |-> "FEES", columns |-> ColumnsMistyped]
\* Purchases and Fees with the header labels of their tables
SectionPurchases ==
    [section_name |-> "Purchases", match_text |-> "PURCHASES", columns |-> ColumnsWithDates,
     header_labels |-> <<<<"T","r","a","n","s"," ","D","a","t","e">>, <<"D","e","s","c","r","i","p","t","i","o","n">>, <<"A","m","o","u","n","t">>>>]
SectionFees ==
    [section_name |-> "Fees", match_text |-> "FEES", columns |-> ColumnsMistyped,
     header_labels |-> <<<<"D","e","s","c","r","i","p","t","i","o","n">>, <<"A","m","o","u","n","t">>>>]
SectionWithoutDates == [name |-> "Activity", columns |-> ColumnsWithoutDates]
SectionWithoutAmount == [columns |-> ColumnsWithoutAmount]

\* a statement period that spans the end of a year
CrossYearPeriod == [start |-> Str(<<"2","0","2","3","-","1","2","-","2","6">>), end |-> Str(<<"2","0","2","4","-","0","1","-","2","5">>)]

Call(config, year, kw) == [section_config |-> config, tax_year |-> year, kwargs |-> kw]

RowsCalls == {
    Call(SectionWithDates, <<"2","0","2","3">>, [rows_only |-> TRUE]),
    Call(SectionWithDates, <<"2","0","2","4">>, [rows_only |-> TRUE]),
    Call(SectionWithoutDates, <<"2","0","2","4">>, << >>),
    Call(SectionWithDates, <<"2","0","2","4">>, [rows_only |-> FALSE]),
    Call(SectionWithDates, <<"2","0","2","4">>, [rows_only |-> FALSE, max_header_rows |-> 1]),
    Call(SectionWithoutAmount, <<"2","0","2","4">>, [rows_only |-> TRUE]),
    Call(SectionWithDates, <<"2","0","2","3">>, [rows_only |-> TRUE, statement_period |-> CrossYearPeriod]),
    Call(SectionWithDates, <<"2","0","2","4">>, [rows_only |-> TRUE, statement_period |-> CrossYearPeriod]),
    Call(SectionPayments, <<"2","0","2","4">>, [rows_only |-> FALSE]),
    Call(SectionMistyped, <<"2","0","2","4">>, [rows_only |-> TRUE]) }

Configs == {c.section_config : c \in RowsCalls} \cup {SectionPurchases, SectionFees}
TaxYears == {c.tax_year : c \in RowsCalls}
Sources == {"TD Visa"}

(***************************************************************************)
(* What parse_rows computes from one row, tabulated over the rows of the   *)
(* pool: each is computed once, and looked up at every step.               *)
(***************************************************************************)
CleanedRow == [r \in RowPool |-> CleanRow(r)]

CleanPool == {CleanedRow[r] : r \in RowPool}

\* the pre-clean loop
RECURSIVE PreClean(_)
PreClean(rs) ==
    IF rs = <<>> THEN <<>>
    ELSE IF RowIsBlank(Head(rs)) THEN PreClean(Tail(rs))
    ELSE <<CleanedRow[Head(rs)]>> \o PreClean(Tail(rs))

Outcomes ==
    [row \in CleanPool, config \in Configs, year \in TaxYears |->
        RowOutcome(row, Columns(config), DigitsValue(year))]

Transactions ==
    [row \in CleanPool, config \in Configs, year \in TaxYears, src \in Sources |->
        MakeTx(row, Columns(config), DigitsValue(year), src, SectionName(config))]

(***************************************************************************)
(* parse_rows, one step for the code before the loop and one step per      *)
(* iteration of the loop over clean_rows.                                  *)
(***************************************************************************)
InitRows ==
    /\ table_rows \in Tables
    /\ \E c \in RowsCalls :
        /\ section_config = c.section_config
        /\ tax_year = c.tax_year
        /\ kwargs = c.kwargs
    /\ source \in Sources
    /\ clean_rows = <<>>
    /\ row_idx = 0
    /\ out = <<>>
    /\ last_tx = 0
    /\ rows_pc = "call"
    /\ IdleOtherThanRows

\* a keyword the signature does not have: TypeError at the call
ParseRowsTypeError ==
    /\ rows_pc = "call"
    /\ ~(DOMAIN kwargs \subseteq RowsKeywords)
    /\ rows_pc' = "raised"
    /\ UNCHANGED <<table_rows, section_config, source, tax_year, kwargs,
                   clean_rows, row_idx, out, last_tx>>
    /\ UNCHANGED otherThanRows

\* the returns of [] before the loop
NothingToParse(rs, cols, kw) ==
    \/ rs = <<>>
    \/ Get(cols, "description") = None
    \/ Get(cols, "amount") = None
    \/ PreClean(rs) = <<>>
    \/ DropHeaders(PreClean(rs), kw) = <<>>

ParseRowsEmpty ==
    /\ rows_pc = "call"
    /\ DOMAIN kwargs \subseteq RowsKeywords
    /\ NothingToParse(table_rows, Columns(section_config), kwargs)
    /\ rows_pc' = "returned"
    /\ UNCHANGED <<table_rows, section_config, source, tax_year, kwargs,
                   clean_rows, row_idx, out, last_tx>>
    /\ UNCHANGED otherThanRows

\* pre-clean, header drop, out = [], last_tx = None
ParseRowsBegin ==
    /\ rows_pc = "call"
    /\ DOMAIN kwargs \subseteq RowsKeywords
    /\ ~NothingToParse(table_rows, Columns(section_config), kwargs)
    /\ clean_rows' = DropHeaders(PreClean(table_rows), kwargs)
    /\ row_idx' = 1
    /\ out' = <<>>
    /\ last_tx' = 0
    /\ rows_pc' = "loop"
    /\ UNCHANGED <<table_rows, section_config, source, tax_year, kwargs>>
    /\ UNCHANGED otherThanRows

\* the loop is at a row whose outcome is kind
AtRow(kind) ==
    /\ rows_pc = "loop"
    /\ row_idx <= Len(clean_rows)
    /\ Outcomes[clean_rows[row_idx], section_config, tax_year] = kind

\* _is_total_or_noise_row(row): continue
RowNoise ==
    /\ AtRow("noise")
    /\ row_idx' = row_idx + 1
    /\ UNCHANGED <<table_rows, section_config, source, tax_year, kwargs,
                   clean_rows, out, last_tx, rows_pc>>
    /\ UNCHANGED otherThanRows

\* not desc: continue
RowWithoutDescription ==
    /\ AtRow("no_description")
    /\ row_idx' = row_idx + 1
    /\ UNCHANGED <<table_rows, section_config, source, tax_year, kwargs,
                   clean_rows, out, last_tx, rows_pc>>
    /\ UNCHANGED otherThanRows

\* amt_val is None: continue
RowWithoutAmount ==
    /\ AtRow("no_amount")
    /\ row_idx' = row_idx + 1
    /\ UNCHANGED <<table_rows, section_config, source, tax_year, kwargs,
                   clean_rows, out, last_tx, rows_pc>>
    /\ UNCHANGED otherThanRows

\* a transaction date column is configured and the date does not parse: continue
RowWithoutDate ==
    /\ AtRow("no_date")
    /\ row_idx' = row_idx + 1
    /\ UNCHANGED <<table_rows, section_config, source, tax_year, kwargs,
                   clean_rows, out, last_tx, rows_pc>>
    /\ UNCHANGED otherThanRows

\* a continuation row: its description goes to last_tx
RowIsContinuation ==
    /\ AtRow("continuation")
    /\ out' = AppendToLast(out, last_tx,
                           Strip(_cell(clean_rows[row_idx],
                                       Get(Columns(section_config), "description"))))
    /\ row_idx' = row_idx + 1
    /\ UNCHANGED <<table_rows, section_config, source, tax_year, kwargs,
                   clean_rows, last_tx, rows_pc>>
    /\ UNCHANGED otherThanRows

\* out.append(tx); last_tx = tx
RowIsTransaction ==
    /\ AtRow("transaction")
    /\ out' = Append(out, Transactions[clean_rows[row_idx], section_config, tax_year, source])
    /\ last_tx' = Len(out) + 1
    /\ row_idx' = row_idx + 1
    /\ UNCHANGED <<table_rows, section_config, source, tax_year, kwargs,
                   clean_rows, rows_pc>>
    /\ UNCHANGED otherThanRows

\* _cell raises TypeError: parse_rows returns nothing
RowRaises ==
    /\ AtRow("raises")
    /\ rows_pc' = "raised"
    /\ UNCHANGED <<table_rows, section_config, source, tax_year, kwargs,
                   clean_rows, row_idx, out, last_tx>>
    /\ UNCHANGED otherThanRows

\* return out
ParseRowsReturn ==
    /\ rows_pc = "loop"
    /\ row_idx > Len(clean_rows)
    /\ rows_pc' = "returned"
    /\ UNCHANGED <<table_rows, section_config, source, tax_year, kwargs,
                   clean_rows, row_idx, out, last_tx>>
    /\ UNCHANGED otherThanRows

NextRows ==
    \/ ParseRowsTypeError
    \/ ParseRowsEmpty
    \/ ParseRowsBegin
    \/ RowNoise
    \/ RowIsContinuation
    \/ RowWithoutDescription
    \/ RowWithoutAmount
    \/ RowWithoutDate
    \/ RowIsTransaction
    \/ RowRaises
    \/ ParseRowsReturn

SpecRows == InitRows /\ [][NextRows]_vars

(***************************************************************************)
(* validate_table_presence (pdf_ingest.py): the gate before extraction.    *)
(* The page is given by what the function reads of it: the lines found in  *)
(* the crop, the rectangles of the crop and, for the header zone, the set  *)
(* of labels whose pattern is found in its text.                           *)
(***************************************************************************)
MaxLabels == 4
MaxRects == 2
MaxLines == 2

PyBool(b) == [t |-> "bool", v |-> b]

\* if strip_bbox[1] <= line["top"] <= strip_bbox[3]
FooterLineInside(strip, footer) ==
    /\ footer # None
    /\ footer.line_bbox # None
    /\ strip[2] <= footer.line_bbox.top
    /\ footer.line_bbox.top <= strip[4]

\* rects = [r for r in crop.rects if (r["x1"] - r["x0"]) > 1]
WideRects(rects) == SelectSeq(rects, LAMBDA r : r.x1 - r.x0 > 1)

has_structure(strip, footer, lines, rects) ==
    IF FooterLineInside(strip, footer) THEN TRUE
    ELSE Len(lines) >= 1 \/ Len(WideRects(rects)) >= 1

\* found_count: one count for every label whose pattern matches the text
found_count(labels, text) == Cardinality({i \in 1..Len(labels) : labels[i] \in text})

\* a slip: one threshold for every number of labels
HalfThreshold(labels) == <<1, 2>>
\* threshold = 0.75 if len(header_labels) > 2 else 0.5, as a fraction
threshold(labels) == IF Len(labels) > 2 THEN <<3, 4>> ELSE <<1, 2>>

\* (found_count / len(header_labels)) >= threshold
has_headers(labels, text) ==
    found_count(labels, text) * threshold(labels)[2] >= threshold(labels)[1] * Len(labels)

validate_table_presence(strip, footer, lines, rects, labels, text) ==
    IF labels = <<>> THEN has_structure(strip, footer, lines, rects)
    ELSE has_structure(strip, footer, lines, rects) /\ has_headers(labels, text)

LabelPool == <<"Date", "Description", "Amount", "Balance", "Reference", "Posted">>
Labels(n) == [i \in 1..n |-> LabelPool[i]]
StripPool == {<<0, 2, 10, 4>>}
\* no footer, a footer without a rule line, a rule line above, inside, below
FooterPool == {None, [line_bbox |-> None]} \cup {[line_bbox |-> [top |-> y]] : y \in 1..5}
\* a dot, a hairline and two boxes
RectPool == {[x0 |-> 0, x1 |-> w] : w \in 0..3}
RectLists == UNION {[1..n -> RectPool] : n \in 0..MaxRects}
\* each line is the list of its segments; only their number is read
LineLists == {[i \in 1..n |-> <<[x0 |-> 0, x1 |-> 20, top |-> 2 + i]>>] : n \in 0..MaxLines}

InitPresence ==
    /\ strip_bbox \in StripPool
    /\ footer_bbox \in FooterPool
    /\ crop_lines \in LineLists
    /\ crop_rects \in RectLists
    /\ \E n \in 0..MaxLabels :
          /\ header_labels = Labels(n)
          /\ found_labels \in SUBSET {LabelPool[i] : i \in 1..n}
    /\ presence = Pending
    /\ IdleOtherThanPresence

ValidateTablePresence ==
    /\ presence = Pending
    /\ presence' = PyBool(validate_table_presence(strip_bbox, footer_bbox, crop_lines,
                                                  crop_rects, header_labels, found_labels))
    /\ UNCHANGED <<strip_bbox, footer_bbox, crop_lines, crop_rects, header_labels, found_labels>>
    /\ UNCHANGED otherThanPresence

NextPresence == ValidateTablePresence
SpecPresence == InitPresence /\ [][NextPresence]_vars

(***************************************************************************)
(* validate_extracted_table (pdf_ingest.py): the check of the extracted    *)
(* row grid.  A row is a list of cells or, when the extraction returned    *)
(* something else in its place, None.                                      *)
(***************************************************************************)
MaxTableRows == 21
\* sample_size = min(len(table_rows), 20)
SampleCap == 20

IsList(x) == x.t = "list"

\* str(v).replace("\n", " ").strip().lower() if v is not None else ""
_clean(v) == Lower(CleanCell(v))

\* sum(1 for cell in row if _clean(cell))
nonempty_count(row) ==
    Cardinality({k \in 1..Len(row.items) : _clean(row.items[k]) # <<>>})

\* a slip: no tolerance of one missing cell
IsFullRow(row, expected_count) == IsList(row) /\ nonempty_count(row) >= expected_count
\* if nonempty_count >= (expected_count - 1)
IsGoodRow(row, expected_count) == IsList(row) /\ nonempty_count(row) >= expected_count - 1

sample_size(rows) == Min(Len(rows), SampleCap)

good_rows(rows, expected_count) ==
    Cardinality({i \in 1..sample_size(rows) : IsGoodRow(rows[i], expected_count)})

\* good_rows == 0, or sample_size >= 4 and (good_rows / sample_size) < 0.4
RowsRejected(rows, expected_count) ==
    \/ good_rows(rows, expected_count) = 0
    \/ /\ sample_size(rows) >= 4
       /\ 5 * good_rows(rows, expected_count) < 2 * sample_size(rows)

\* sep.join(parts)
RECURSIVE Join(_, _)
Join(sep, parts) ==
    IF parts = <<>> THEN <<>>
    ELSE IF Len(parts) = 1 THEN parts[1]
    ELSE parts[1] \o sep \o Join(sep, Tail(parts))

\* " ".join(_clean(cell) for cell in row if cell)
HeaderRowText(row) ==
    Join(<<" ">>, [k \in 1..Len(SelectSeq(row.items, Truthy))
                      |-> _clean(SelectSeq(row.items, Truthy)[k])])

\* header_n = max(1, min(int(max_header_rows), 3)), with the default of 2
header_n == Max(1, Min(DefaultMaxHeaderRows, 3))

header_text(rows) ==
    Join(<<" ">>, [i \in 1..Len(SelectSeq(SubSeq(rows, 1, Min(header_n, Len(rows))), IsList))
                      |-> HeaderRowText(SelectSeq(SubSeq(rows, 1, Min(header_n, Len(rows))), IsList)[i])])

hits(labels, text) == Cardinality({i \in 1..Len(labels) : IsSubstr(_clean(Str(labels[i])), text)})

\* required_hits = max(1, int(len(expected_labels) * header_match_threshold)),
\* with the default threshold of 0.6
required_hits(labels) == Max(1, (3 * Len(labels)) \div 5)

ExpectedLabels(config) == IF "header_labels" \in DOMAIN config THEN config.header_labels ELSE <<>>

\* a slip: without labels the structure is enough, whatever the type_check
HeadersAcceptedOnStructure(rows, config, check) ==
    IF ExpectedLabels(config) = <<>> THEN TRUE
    ELSE hits(ExpectedLabels(config), header_text(rows)) >= required_hits(ExpectedLabels(config))

HeadersAccepted(rows, config, check) ==
    IF ExpectedLabels(config) = <<>> THEN check = "both"
    ELSE hits(ExpectedLabels(config), header_text(rows)) >= required_hits(ExpectedLabels(config))

validate_extracted_table(rows, config, check) ==
    IF rows = <<>> THEN FALSE
    ELSE IF DOMAIN Columns(config) = {} THEN FALSE
    ELSE IF check \in {"rows_only", "both"}
            /\ RowsRejected(rows, Cardinality(DOMAIN Columns(config))) THEN FALSE
    ELSE IF check \in {"header_only", "both"} THEN HeadersAccepted(rows, config, check)
    ELSE TRUE

\* rows of four cells: a full data row, the header row, a row with one cell
\* missing, a row with two cells, a blank row, and no list at all
GridFull == List(RowDec27)
GridHeader == List(RowHeader)
GridOffByOne == List(RowFeb29)
GridHalf == List(<<None, Str(<<" ">>), Str(<<"P","A","Y","M","E","N","T">>), Str(<<"5",".","0","0">>)>>)
GridBlank == List(<<None, Str(<<>>), Str(<<" ">>), Str(<<"\n">>)>>)
GridPool == {GridFull, GridHeader, GridOffByOne, GridHalf, GridBlank, None}

Repeat(x, n) == [i \in 1..n |-> x]
\* a run of one kind of row followed by a run of another
Grids ==
    {Repeat(a, i) \o Repeat(b, j) :
        a \in GridPool, b \in GridPool, i \in 0..MaxTableRows, j \in {0, 1, 2, 13, 14}}

SectionWithLabels ==
    [section_name |-> "Purchases", columns |-> ColumnsWithDates,
     header_labels |-> <<<<"T","r","a","n","s"," ","D","a","t","e">>, <<"D","e","s","c","r","i","p","t","i","o","n">>, <<"A","m","o","u","n","t">>>>]
SectionWithoutColumns == [section_name |-> "Purchases", columns |-> << >>]
ExtractedSections ==
    {SectionWithDates, SectionWithoutDates, SectionWithLabels, SectionWithoutColumns}
TypeChecks == {"rows_only", "header_only", "both"}

InitExtracted ==
    /\ extracted_rows \in {g \in Grids : Len(g) <= MaxTableRows}
    /\ extracted_section \in ExtractedSections
    /\ type_check \in TypeChecks
    /\ extracted_ok = Pending
    /\ IdleOtherThanExtracted

ValidateExtractedTable ==
    /\ extracted_ok = Pending
    /\ extracted_ok' = PyBool(validate_extracted_table(extracted_rows, extracted_section, type_check))
    /\ UNCHANGED <<extracted_rows, extracted_section, type_check>>
    /\ UNCHANGED otherThanExtracted

NextExtracted == ValidateExtractedTable
SpecExtracted == InitExtracted /\ [][NextExtracted]_vars

(***************************************************************************)
(* parse_pdf (pdf_ingest.py).  A page is given by what the function reads  *)
(* of it: whether the header anchor is found, and for each section header  *)
(* found its position and what the gates and the extraction make of the    *)
(* region below it.  parse_rows is called as modelled above.               *)
(***************************************************************************)
MaxPages == 2

IsDict(x) == "t" \notin DOMAIN x

\* load_bank_profile raises FileNotFoundError (no schema, no profile) or the
\* ValidationError of jsonschema.validate, or returns the profile
ProfileNotFound == [t |-> "FileNotFoundError"]
ProfileInvalid == [t |-> "ValidationError"]
LoadRaises(p) == p \in {ProfileNotFound, ProfileInvalid}

\* if not isinstance(sections, list) or not sections
SectionsMalformed(sections) == IF sections.t # "list" THEN TRUE ELSE sections.items = <<>>

\* the two checks of the loop over sections
EntryMalformed(s) ==
    IF ~IsDict(s) \/ {"section_name", "match_text", "columns"} \ DOMAIN s # {} THEN TRUE
    ELSE ~IsDict(s.columns) \/ DOMAIN s.columns = {}

ProfileRejected(p) ==
    IF SectionsMalformed(Get(p, "sections")) THEN TRUE
    ELSE \E k \in 1..Len(p.sections.items) : EntryMalformed(p.sections.items[k])

\* skip_indices, header_anchor, source_name
skip_indices(p) == IF "skip_pages_by_index" \in DOMAIN p THEN p.skip_pages_by_index ELSE {}
header_anchor(p) == Get(p, "page_header_anchor")
source_name(p) == p.bank_name

\* get_section_header_bbox(page, sec["match_text"], ...): the header found on
\* the page for the match text, or None
get_section_header_bbox(page, match_text) ==
    IF \E r \in page.regions : r.match_text = match_text
    THEN CHOOSE r \in page.regions : r.match_text = match_text
    ELSE None

\* the loop over sections that fills page_section_positions
RECURSIVE FoundSections(_, _)
FoundSections(page, sections) ==
    IF sections = <<>> THEN <<>>
    ELSE IF get_section_header_bbox(page, Head(sections).match_text) = None
         THEN FoundSections(page, Tail(sections))
    ELSE <<[section |-> Head(sections),
            top |-> get_section_header_bbox(page, Head(sections).match_text).top,
            region |-> get_section_header_bbox(page, Head(sections).match_text)]>>
         \o FoundSections(page, Tail(sections))

\* a slip: the headers stay in the order of the profile
Unsorted(items) == items

\* list.sort(key=lambda x: x["top"]): stable, ascending
RECURSIVE InsertByTop(_, _)
InsertByTop(item, sorted) ==
    IF sorted = <<>> THEN <<item>>
    ELSE IF item.top < Head(sorted).top THEN <<item>> \o sorted
    ELSE <<Head(sorted)>> \o InsertByTop(item, Tail(sorted))
RECURSIVE SortByTop(_)
SortByTop(items) ==
    IF items = <<>> THEN <<>>
    ELSE InsertByTop(items[Len(items)], SortByTop(SubSeq(items, 1, Len(items) - 1)))

\* the rows of an extracted table as validate_extracted_table takes them
AsGrid(rows) == [i \in 1..Len(rows) |-> List(rows[i])]

\* get_table_header_bbox: None for a section without header_labels; with
\* labels, below a window that the guard has let through, the dict it returns
\* has its text_bbox and its coords set
get_table_header_bbox(section) ==
    IF ExpectedLabels(section) = <<>> THEN None ELSE [text_bbox |-> TRUE, coords |-> TRUE]

\* get_table_edges: None when there is no header box, else the edges with
\* their coords and their rows_bbox
get_table_edges(section) ==
    IF get_table_header_bbox(section) = None THEN None
    ELSE [coords |-> TRUE, rows_bbox |-> TRUE]

\* rows_bbox = table_edges.get("rows_bbox", None), or None in the fallback
rows_bbox(item) ==
    IF get_table_edges(item.section) = None THEN FALSE
    ELSE get_table_edges(item.section).rows_bbox

\* what stops a region before parse_rows: the window guard, gate 1, the crop
\* guards, an empty extraction, and the header check of a table extracted
\* without rows_bbox
RegionSkipped(item) ==
    IF item.region.kind \in {"window", "no_table", "crop", "no_rows"} THEN TRUE
    ELSE IF item.region.kind # "table" THEN FALSE
    ELSE IF item.region.table_rows = <<>> THEN TRUE
    ELSE IF rows_bbox(item) THEN FALSE
    ELSE ~validate_extracted_table(AsGrid(item.region.table_rows), item.section, "header_only")

\* a slip: every region that no guard stops is parsed, the unreadable one too
RegionNotSkipped(item) == ~RegionSkipped(item)

RegionParsed(item) == item.region.kind = "table" /\ ~RegionSkipped(item)

\* tables of the statement: the rows only, as the rows box gives them, or the
\* header row and the rows, as the table box gives them
TableTwo == <<RowDec27, RowJan03>>
TableFour == <<RowDec27, RowJan03, RowFeb29, RowContinuation>>
TableLong == <<RowJan03, RowFeb29, RowDec27, RowNoDate, RowNoDescription, RowNoAmount,
               RowTotalFees, RowJan03>>
TableHeaded == <<RowHeader, RowDec27, RowContinuation>>
TableBlank == <<RowBlank>>

Region(match_text, top, kind) ==
    [match_text |-> match_text, top |-> top, kind |-> kind, table_rows |-> <<>>]
TableRegion(match_text, top, rows) ==
    [match_text |-> match_text, top |-> top, kind |-> "table", table_rows |-> rows]
Page(anchor, regions) == [anchor |-> anchor, regions |-> regions]

PagePurchases == Page(TRUE, {TableRegion("PURCHASES", 2, TableFour)})
PagePurchasesLong == Page(TRUE, {TableRegion("PURCHASES", 1, TableLong)})
\* the Payments header stands above the Purchases header
PagePaymentsAbove ==
    Page(TRUE, {TableRegion("PURCHASES", 5, TableFour),
                TableRegion("PAYMENTS", 1, TableFour)})
\* the table under Fees makes parse_rows raise; Purchases follows it
PageFeesAbove ==
    Page(TRUE, {TableRegion("FEES", 1, TableFour),
                TableRegion("PURCHASES", 4, TableLong)})
\* reading the region raises: a geometry or extraction failure
PageBroken == Page(TRUE, {Region("PURCHASES", 1, "error")})
PageWithoutAnchorText == Page(FALSE, {TableRegion("PURCHASES", 1, TableFour)})
PageOfText == Page(TRUE, {})
PageGated ==
    Page(TRUE, {Region("PURCHASES", 1, "no_table"), Region("PAYMENTS", 2, "window"),
                TableRegion("FEES", 3, TableBlank)})
\* the table box was read again after the rows box gave no table: the header
\* row is among the rows
PageUnlabelled ==
    Page(TRUE, {TableRegion("PAYMENTS", 1, TableHeaded),
                TableRegion("PURCHASES", 1, TableTwo)})

PagePool == {PagePurchases, PagePurchasesLong, PagePaymentsAbove, PageFeesAbove,
             PageBroken, PageWithoutAnchorText, PageOfText, PageGated, PageUnlabelled}

PdfUnreadable == [t |-> "Exception"]
Pdf(pages) == [t |-> "pdf", pages |-> pages]
PdfPool == {PdfUnreadable} \cup {Pdf(ps) : ps \in UNION {[1..n -> PagePool] : n \in 1..MaxPages}}

Profile(sections) == [bank_name |-> "TD Visa", sections |-> sections]
ProfileOne == Profile(List(<<SectionPurchases>>))
ProfileThree == Profile(List(<<SectionPurchases, SectionPayments, SectionFees>>))
ProfileAnchored ==
    [bank_name |-> "TD Visa", sections |-> List(<<SectionWithDates, SectionPayments>>),
     skip_pages_by_index |-> {0}, page_header_anchor |-> Str(<<"T","D">>)]
AcceptedProfiles == {ProfileOne, ProfileThree, ProfileAnchored}

SectionEmptyColumns ==
    [section_name |-> "Purchases", match_text |-> "PURCHASES", columns |-> << >>]
SectionListColumns ==
    [section_name |-> "Purchases", match_text |-> "PURCHASES", columns |-> List(<<PyInt(2), PyInt(3)>>)]
RejectedProfiles ==
    {[bank_name |-> "TD Visa"],
     Profile(None),
     Profile(List(<<>>)),
     Profile(Str(<<"P","u","r","c","h","a","s","e","s">>)),
     Profile(List(<<SectionWithDates, Str(<<"P","a","y","m","e","n","t","s">>)>>)),
     Profile(List(<<SectionWithDates, SectionWithoutDates>>)),
     Profile(List(<<[section_name |-> "Payments", columns |-> ColumnsWithoutDates]>>)),
     Profile(List(<<[match_text |-> "PAYMENTS", columns |-> ColumnsWithoutDates]>>)),
     Profile(List(<<[section_name |-> "Payments", match_text |-> "PAYMENTS"]>>)),
     Profile(List(<<SectionEmptyColumns>>)),
     Profile(List(<<SectionWithDates, SectionListColumns>>))}

PdfTaxYears == {2024}

InitPdf ==
    /\ \/ /\ profile \in AcceptedProfiles
          /\ pdf \in PdfPool
       \/ /\ profile \in RejectedProfiles \cup {ProfileNotFound, ProfileInvalid}
          /\ pdf = Pdf(<<PagePurchases>>)
    /\ pdf_tax_year \in PdfTaxYears
    /\ transactions = <<>>
    /\ page_num = 0
    /\ page_section_positions = <<>>
    /\ sec_i = 0
    /\ notified = <<>>
    /\ pdf_pc = "start"
    /\ IdleRows
    /\ IdleOtherThanPdf

\* profile = load_bank_profile(bank) raises: nothing catches it
PdfLoadRaises ==
    /\ pdf_pc = "start"
    /\ LoadRaises(profile)
    /\ pdf_pc' = "raised"
    /\ UNCHANGED <<profile, pdf, pdf_tax_year, transactions, page_num,
                   page_section_positions, sec_i, notified>>
    /\ UNCHANGED rowsVars
    /\ UNCHANGED otherThanPdf

\* the profile fails the validation: notify(..., "error"); return transactions
PdfProfileRejected ==
    /\ pdf_pc = "start"
    /\ ~LoadRaises(profile)
    /\ ProfileRejected(profile)
    /\ notified' = Append(notified, "error")
    /\ pdf_pc' = "returned"
    /\ UNCHANGED <<profile, pdf, pdf_tax_year, transactions, page_num,
                   page_section_positions, sec_i>>
    /\ UNCHANGED rowsVars
    /\ UNCHANGED otherThanPdf

PdfProfileAccepted ==
    /\ pdf_pc = "start"
    /\ ~LoadRaises(profile)
    /\ ~ProfileRejected(profile)
    /\ pdf_pc' = "open"
    /\ UNCHANGED <<profile, pdf, pdf_tax_year, transactions, page_num,
                   page_section_positions, sec_i, notified>>
    /\ UNCHANGED rowsVars
    /\ UNCHANGED otherThanPdf

\* pdfplumber.open raises: except Exception, notify error, notify info, return
PdfOpenFails ==
    /\ pdf_pc = "open"
    /\ pdf = PdfUnreadable
    /\ notified' = notified \o <<"error", "info">>
    /\ pdf_pc' = "returned"
    /\ UNCHANGED <<profile, pdf, pdf_tax_year, transactions, page_num,
                   page_section_positions, sec_i>>
    /\ UNCHANGED rowsVars
    /\ UNCHANGED otherThanPdf

PdfOpen ==
    /\ pdf_pc = "open"
    /\ pdf # PdfUnreadable
    /\ page_num' = 0
    /\ pdf_pc' = "page"
    /\ UNCHANGED <<profile, pdf, pdf_tax_year, transactions,
                   page_section_positions, sec_i, notified>>
    /\ UNCHANGED rowsVars
    /\ UNCHANGED otherThanPdf

AtPage == pdf_pc = "page" /\ page_num < Len(pdf.pages)
ThePage == pdf.pages[page_num + 1]
PageIsSkipped == page_num \in skip_indices(profile)
PageLacksAnchor == header_anchor(profile) # None /\ ~ThePage.anchor

\* if page_num in skip_indices: continue
PageSkippedByIndex ==
    /\ AtPage
    /\ PageIsSkipped
    /\ page_num' = page_num + 1
    /\ UNCHANGED <<profile, pdf, pdf_tax_year, transactions,
                   page_section_positions, sec_i, notified, pdf_pc>>
    /\ UNCHANGED rowsVars
    /\ UNCHANGED otherThanPdf

\* if not anchors: continue
PageWithoutAnchor ==
    /\ AtPage
    /\ ~PageIsSkipped
    /\ PageLacksAnchor
    /\ page_num' = page_num + 1
    /\ UNCHANGED <<profile, pdf, pdf_tax_year, transactions,
                   page_section_positions, sec_i, notified, pdf_pc>>
    /\ UNCHANGED rowsVars
    /\ UNCHANGED otherThanPdf

\* if not page_section_positions: continue
PageWithoutSections ==
    /\ AtPage
    /\ ~PageIsSkipped
    /\ ~PageLacksAnchor
    /\ FoundSections(ThePage, profile.sections.items) = <<>>
    /\ page_section_positions' = <<>>
    /\ page_num' = page_num + 1
    /\ UNCHANGED <<profile, pdf, pdf_tax_year, transactions, sec_i, notified, pdf_pc>>
    /\ UNCHANGED rowsVars
    /\ UNCHANGED otherThanPdf

\* the headers of the page are collected and sorted by their top
PageBegin ==
    /\ AtPage
    /\ ~PageIsSkipped
    /\ ~PageLacksAnchor
    /\ FoundSections(ThePage, profile.sections.items) # <<>>
    /\ page_section_positions' = SortByTop(FoundSections(ThePage, profile.sections.items))
    /\ sec_i' = 1
    /\ pdf_pc' = "section"
    /\ UNCHANGED <<profile, pdf, pdf_tax_year, transactions, page_num, notified>>
    /\ UNCHANGED rowsVars
    /\ UNCHANGED otherThanPdf

AtSection == pdf_pc = "section" /\ sec_i <= Len(page_section_positions)
TheItem == page_section_positions[sec_i]

\* one of the guards and gates says continue
SectionSkipped ==
    /\ AtSection
    /\ RegionSkipped(TheItem)
    /\ sec_i' = sec_i + 1
    /\ UNCHANGED <<profile, pdf, pdf_tax_year, transactions, page_num,
                   page_section_positions, notified, pdf_pc>>
    /\ UNCHANGED rowsVars
    /\ UNCHANGED otherThanPdf

\* an exception outside the inner try blocks: the outer except takes it,
\* notify error, notify info, return transactions
SectionRaises ==
    /\ AtSection
    /\ TheItem.region.kind = "error"
    /\ notified' = notified \o <<"error", "info">>
    /\ pdf_pc' = "returned"
    /\ UNCHANGED <<profile, pdf, pdf_tax_year, transactions, page_num,
                   page_section_positions, sec_i>>
    /\ UNCHANGED rowsVars
    /\ UNCHANGED otherThanPdf

\* parse_rows(table_rows, section, source=source_name,
\*            tax_year=str(tax_year or datetime.now().year), rows_only=not bool(rows_bbox))
SectionCallsParseRows ==
    /\ AtSection
    /\ RegionParsed(TheItem)
    /\ table_rows' = TheItem.region.table_rows
    /\ section_config' = TheItem.section
    /\ source' = source_name(profile)
    /\ tax_year' = NatDigits(pdf_tax_year)
    /\ kwargs' = [rows_only |-> ~rows_bbox(TheItem)]
    /\ clean_rows' = <<>>
    /\ row_idx' = 0
    /\ out' = <<>>
    /\ last_tx' = 0
    /\ rows_pc' = "call"
    /\ pdf_pc' = "parsing"
    /\ UNCHANGED <<profile, pdf, pdf_tax_year, transactions, page_num,
                   page_section_positions, sec_i, notified>>
    /\ UNCHANGED otherThanPdf

\* if new_txs: transactions.extend(new_txs)
SectionParsed ==
    /\ pdf_pc = "parsing"
    /\ rows_pc = "returned"
    /\ transactions' = transactions \o out
    /\ sec_i' = sec_i + 1
    /\ pdf_pc' = "section"
    /\ UNCHANGED <<profile, pdf, pdf_tax_year, page_num, page_section_positions, notified>>
    /\ UNCHANGED rowsVars
    /\ UNCHANGED otherThanPdf

\* except Exception around parse_rows: notify error; continue
SectionParseFails ==
    /\ pdf_pc = "parsing"
    /\ rows_pc = "raised"
    /\ notified' = Append(notified, "error")
    /\ sec_i' = sec_i + 1
    /\ pdf_pc' = "section"
    /\ UNCHANGED <<profile, pdf, pdf_tax_year, transactions, page_num,
                   page_section_positions>>
    /\ UNCHANGED rowsVars
    /\ UNCHANGED otherThanPdf

\* the loop over page_section_positions is over: next page
PageEnd ==
    /\ pdf_pc = "section"
    /\ sec_i > Len(page_section_positions)
    /\ page_num' = page_num + 1
    /\ pdf_pc' = "page"
    /\ UNCHANGED <<profile, pdf, pdf_tax_year, transactions,
                   page_section_positions, sec_i, notified>>
    /\ UNCHANGED rowsVars
    /\ UNCHANGED otherThanPdf

\* notify info; return transactions
PdfReturn ==
    /\ pdf_pc = "page"
    /\ page_num >= Len(pdf.pages)
    /\ notified' = Append(notified, "info")
    /\ pdf_pc' = "returned"
    /\ UNCHANGED <<profile, pdf, pdf_tax_year, transactions, page_num,
                   page_section_positions, sec_i>>
    /\ UNCHANGED rowsVars
    /\ UNCHANGED otherThanPdf

NextPdf ==
    \/ PdfLoadRaises
    \/ PdfProfileRejected
    \/ PdfProfileAccepted
    \/ PdfOpenFails
    \/ PdfOpen
    \/ PageSkippedByIndex
    \/ PageWithoutAnchor
    \/ PageWithoutSections
    \/ PageBegin
    \/ SectionSkipped
    \/ SectionRaises
    \/ SectionCallsParseRows
    \/ ParseRowsEmpty
    \/ ParseRowsBegin
    \/ RowNoise
    \/ RowIsContinuation
    \/ RowWithoutDescription
    \/ RowWithoutAmount
    \/ RowWithoutDate
    \/ RowIsTransaction
    \/ RowRaises
    \/ ParseRowsReturn
    \/ SectionParsed
    \/ SectionParseFails
    \/ PageEnd
    \/ PdfReturn

SpecPdf == InitPdf /\ [][NextPdf]_vars

(***************************************************************************)
(* The run over the statement files: main of project.py and ingest_year.   *)
(* A file is what ingesting it does: "parsed" returns its transactions,    *)
(* "contained" is a failure that parse_pdf logs itself and turns into the  *)
(* transactions read so far, "raises" is an exception that leaves          *)
(* ingest_statement or parse_pdf (a statement file that is gone, a bank    *)
(* without profile, a CSV that cannot be read).                            *)
(***************************************************************************)
MaxFiles == 3

FileKinds == {"parsed", "contained", "raises"}
FileLists == UNION {[1..n -> FileKinds] : n \in 0..MaxFiles}
\* ingest_year parses every file with the profile of the one bank: the
\* exception of load_bank_profile is raised for each file or for none
YearFileLists ==
    {fl \in FileLists : (\E i \in DOMAIN fl : fl[i] = "raises") => (\A i \in DOMAIN fl : fl[i] = "raises")}

InitRun ==
    /\ \/ /\ run_entry = "main"
          /\ file_list \in FileLists
       \/ /\ run_entry = "ingest_year"
          /\ file_list \in YearFileLists
    /\ file_i = 1
    /\ ingested = <<>>
    /\ run_notified = <<>>
    /\ run_pc = "loop"
    /\ IdleOtherThanRun

AtFile(entry) == run_entry = entry /\ run_pc = "loop" /\ file_i <= Len(file_list)

\* main: txs = ingest_statement(...); transactions.extend(txs); notify info
MainIngests ==
    /\ AtFile("main")
    /\ file_list[file_i] # "raises"
    /\ ingested' = Append(ingested, file_i)
    /\ run_notified' = Append(run_notified, "info")
    /\ file_i' = file_i + 1
    /\ UNCHANGED <<run_entry, file_list, run_pc>>
    /\ UNCHANGED otherThanRun

\* main: except Exception: notify error; sys.exit(1)
MainIngestFails ==
    /\ AtFile("main")
    /\ file_list[file_i] = "raises"
    /\ run_notified' = Append(run_notified, "error")
    /\ run_pc' = "exited"
    /\ UNCHANGED <<run_entry, file_list, file_i, ingested>>
    /\ UNCHANGED otherThanRun

\* main: the loop is over, run_pipeline and wb.save follow
MainRunsPipeline ==
    /\ run_entry = "main"
    /\ run_pc = "loop"
    /\ file_i > Len(file_list)
    /\ run_pc' = "pipeline"
    /\ UNCHANGED <<run_entry, file_list, file_i, ingested, run_notified>>
    /\ UNCHANGED otherThanRun

\* ingest_year: tx = parse_pdf(...); export_csv(tx, ...); all_tx.extend(tx)
YearIngests ==
    /\ AtFile("ingest_year")
    /\ file_list[file_i] # "raises"
    /\ ingested' = Append(ingested, file_i)
    /\ run_notified' = Append(run_notified, "info")
    /\ file_i' = file_i + 1
    /\ UNCHANGED <<run_entry, file_list, run_pc>>
    /\ UNCHANGED otherThanRun

\* ingest_year: parse_pdf raises, there is no try around it
YearIngestRaises ==
    /\ AtFile("ingest_year")
    /\ file_list[file_i] = "raises"
    /\ run_pc' = "raised"
    /\ UNCHANGED <<run_entry, file_list, file_i, ingested, run_notified>>
    /\ UNCHANGED otherThanRun

\* ingest_year: the loop is over, the unified CSV is exported
YearExports ==
    /\ run_entry = "ingest_year"
    /\ run_pc = "loop"
    /\ file_i > Len(file_list)
    /\ run_notified' = Append(run_notified, "info")
    /\ run_pc' = "exported"
    /\ UNCHANGED <<run_entry, file_list, file_i, ingested>>
    /\ UNCHANGED otherThanRun

NextRun ==
    \/ MainIngests
    \/ MainIngestFails
    \/ MainRunsPipeline
    \/ YearIngests
    \/ YearIngestRaises
    \/ YearExports

SpecRun == InitRun /\ [][NextRun]_vars

(***************************************************************************)
(* The spreadsheet schema, map_transaction_to_row, write_transaction and   *)
(* run_pipeline.                                                           *)
(***************************************************************************)
MaxTransactions == 2
MaxFileRules == 1
DefaultStartRow == 4

\* COLUMNS of spreadsheet_schema.py: letter and name, in order
COLUMNS ==
    <<  <<"A", "Date">>, <<"B", "Item">>, <<"C", "Withdrawals CR">>, <<"D", "Deposits DR">>,
        <<"E", "A/R DR">>, <<"F", "Shareholder Contribution (CR)">>,
        <<"G", "Shareholder Drawings (DR)">>, <<"H", "Revenue CR">>, <<"I", "Office Expenses">>,
        <<"J", "Office Rent">>, <<"K", "Office Utilities">>, <<"L", "Vehicle Expenses">>,
        <<"M", "Accounting Fees">>, <<"N", "Telephone">>, <<"O", "Internet">>,
        <<"P", "Bank Fees">>, <<"Q", "Professional Fees">>, <<"R", "Dental / Medical">>,
        <<"S", "Supplies">>, <<"T", "Food Expenses from Business Meetings">>,
        <<"U", "Business Trip">>, <<"V", "Client Gifts">>, <<"W", "Marketing Costs">>,
        <<"X", "Misc">>, <<"Y", "Insurance">>, <<"Z", "Donations">>, <<"AA", "TOTAL">>,
        <<"AB", "Notes">>  >>
ColumnNames == {COLUMNS[i][2] : i \in 1..Len(COLUMNS)}
ColumnLetters == {COLUMNS[i][1] : i \in 1..Len(COLUMNS)}
NameOfLetter(letter) == (CHOOSE i \in 1..Len(COLUMNS) : COLUMNS[i][1] = letter)
ColumnName(letter) == COLUMNS[NameOfLetter(letter)][2]
\* the column with a formula_template
FormulaColumns == {"TOTAL"}
Formula(row) == [t |-> "formula", row |-> row]

\* d[key] = value
SetItem(d, key, value) == [k \in DOMAIN d \cup {key} |-> IF k = key THEN value ELSE d[k]]

\* float(a) * float(p) for the percentages 1.0 and 0.5, on amounts whose
\* product is a whole number of hundredths
Times(a, p) == Cents((Hundredths(a) * Hundredths(p)) \div 100)

\* amount = raw_tx.get("Debit") or raw_tx.get("Credit"), by transaction type
AmountOf(raw_tx, tx_type) ==
    IF tx_type \in {"EXPENSE", "MANUAL_CR"} THEN Get(raw_tx, "Debit")
    ELSE IF tx_type \in {"INCOME", "MANUAL_DR", "INCOME_TO_OFFSET_EXPENSE"} THEN Get(raw_tx, "Credit")
    ELSE None

ApplyPercentage(dual_entry) ==
    IF "APPLY_PERCENTAGE" \in DOMAIN dual_entry THEN dual_entry.APPLY_PERCENTAGE ELSE Cents(100)

\* a slip: only the manual credit is flagged
IsManualCredit(classification) == classification.transaction_type = "MANUAL_CR"
IsManual(classification) == classification.transaction_type \in {"MANUAL_CR", "MANUAL_DR"}
ManualColumn(classification) ==
    IF classification.category # "Unclassified" THEN ""
    ELSE IF classification.transaction_type = "MANUAL_CR" THEN "Withdrawals CR"
    ELSE IF classification.transaction_type = "MANUAL_DR" THEN "Deposits DR"
    ELSE ""

\* float(amount) or float(apply_pct) raises ValueError or TypeError
MapRaises(raw_tx, classification) ==
    LET amount == AmountOf(raw_tx, classification.transaction_type)
        dual_entry == classification.dual_entry
    IN  IF amount = None THEN FALSE
        ELSE IF dual_entry # None
             THEN ToFloat(amount) = Err \/ ToFloat(ApplyPercentage(dual_entry)) = Err
        ELSE IF ManualColumn(classification) # "" THEN ToFloat(amount) = Err
        ELSE FALSE

\* row[cr_col["name"]] = adjusted_amount
CrValue(adjusted_amount) == adjusted_amount

\* the entries of the dual entry, or of the manual fallback
Booked(row, raw_tx, classification) ==
    LET amount == AmountOf(raw_tx, classification.transaction_type)
        dual_entry == classification.dual_entry
    IN  IF amount = None THEN row
        ELSE IF dual_entry # None
             THEN LET adjusted_amount == Times(ToFloat(amount), ToFloat(ApplyPercentage(dual_entry)))
                      dr_col == Get(dual_entry, "DR_COLUMN")
                      cr_col == Get(dual_entry, "CR_COLUMN")
                      with_dr == IF dr_col # None THEN SetItem(row, dr_col.name, adjusted_amount)
                                 ELSE row
                  IN  IF cr_col # None THEN SetItem(with_dr, cr_col.name, CrValue(adjusted_amount))
                      ELSE with_dr
        ELSE IF ManualColumn(classification) # ""
             THEN SetItem(row, ManualColumn(classification), ToFloat(amount))
        ELSE row

ReviewNote(raw_tx) ==
    Str(<<"P","l","e","a","s","e",","," ","r","e","v","i","e","w"," ","u","n","c","l","a","s","s","i","f","i","e","d"," ","t","r","a","n","s","a","c","t","i","o","n",":"," ">> \o PyStr(Get(raw_tx, "Description")))
IgnoredNote(raw_tx) ==
    Str(<<"I","g","n","o","r","e","d"," ","t","r","a","n","s","a","c","t","i","o","n",":"," ">>
        \o (IF "Description" \in DOMAIN raw_tx THEN raw_tx.Description.s ELSE <<"i","t","e","m">>)
        \o <<" ","-",">"," ">>
        \o PyStr(IF Truthy(Get(raw_tx, "Debit")) THEN Get(raw_tx, "Debit") ELSE Get(raw_tx, "Credit")))

IsCreditCard(raw_tx) ==
    IF "source" \in DOMAIN raw_tx THEN raw_tx.source = Str(<<"c","r","e","d","i","t","_","c","a","r","d">>) ELSE FALSE

\* map_transaction_to_row(raw_tx, classification, row_idx), where it returns
map_transaction_to_row(raw_tx, classification) ==
    LET description == IF "Description" \in DOMAIN raw_tx THEN raw_tx.Description ELSE Str(<<>>)
        row0 == [c \in ColumnNames |-> IF c = "Date" THEN Get(raw_tx, "Date") ELSE None]
        row1 == IF IsCreditCard(raw_tx)
                THEN SetItem(SetItem(row0, "Item", Str(PyStr(description) \o <<" ","(","C","r","e","d","i","t","-","C","a","r","d",")">>)),
                             "credit_card_source", PyBool(TRUE))
                ELSE SetItem(row0, "Item", description)
        row2 == Booked(row1, raw_tx, classification)
        row3 == IF IsManual(classification)
                THEN SetItem(SetItem(row2, "Notes", ReviewNote(raw_tx)), "highlight", PyBool(TRUE))
                ELSE row2
    IN  IF classification.transaction_type = "IGNORE_TRANSACTION"
        THEN SetItem(SetItem(row3, "Notes", IgnoredNote(raw_tx)), "ignore", PyBool(TRUE))
        ELSE row3

\* SpreadsheetExporter.write_transaction(row_idx, transaction): the values of
\* the cells by column letter, the fill and the font of the row
Flag(mapped, key) == IF key \in DOMAIN mapped THEN mapped[key].v ELSE FALSE
CellValue(at_row, mapped, name) ==
    IF name \in FormulaColumns /\ Get(mapped, name) = None THEN Formula(at_row)
    ELSE Get(mapped, name)
write_transaction(at_row, mapped) ==
    [cells |-> [letter \in ColumnLetters |-> CellValue(at_row, mapped, ColumnName(letter))],
     fill |-> IF Flag(mapped, "ignore") THEN "ignore"
              ELSE IF Flag(mapped, "highlight") THEN "highlight" ELSE "none",
     font |-> IF Flag(mapped, "credit_card_source") THEN "red" ELSE "default"]

\* RuleLoader._validate_rule and _validate_condition raise ValueError
ConditionInvalid(cond) ==
    IF "field" \notin DOMAIN cond \/ "operator" \notin DOMAIN cond \/ "value" \notin DOMAIN cond
    THEN TRUE
    ELSE cond.operator \notin OPERATORS
RuleInvalid(rule) ==
    IF \E f \in {"category_name", "transaction_type", "logic", "rules"} : f \notin DOMAIN rule
    THEN TRUE
    ELSE IF rule.transaction_type # "IGNORE_TRANSACTION" /\ "dual_entry" \notin DOMAIN rule
    THEN TRUE
    ELSE \E i \in 1..Len(rule.rules) :
            IF IsGroup(rule.rules[i])
            THEN \E j \in 1..Len(rule.rules[i].rules) : ConditionInvalid(rule.rules[i].rules[j])
            ELSE ConditionInvalid(rule.rules[i])
LoadRaisesValueError(file_rules) == \E i \in 1..Len(file_rules) : RuleInvalid(file_rules[i])

\* rules and transactions of the model
Column(name, letter) == [name |-> name, letter |-> letter]
DualEntryOf(dr, cr, pct) == [DR_COLUMN |-> dr, CR_COLUMN |-> cr, APPLY_PERCENTAGE |-> pct]
ContainsCoffee == Cond("Description", "CONTAINS", Str(<<"C","O","F","F","E","E">>))
ContainsBean == Cond("Description", "CONTAINS", Str(<<"b","e","a","n">>))
ContainsTransfer == Cond("Description", "CONTAINS", Str(<<"e","-","t","r","a","n","s","f","e","r">>))
RuleTestCoffee ==
    [category_name |-> "Test Coffee", transaction_type |-> "EXPENSE",
     logic |-> "MUST_MATCH_ANY", rules |-> <<ContainsCoffee>>,
     dual_entry |-> DualEntryOf(Column("Food Expenses from Business Meetings", "T"),
                                Column("Shareholder Contribution (CR)", "F"), Cents(100))]
RuleHalfBean ==
    [category_name |-> "Coffee beans", transaction_type |-> "EXPENSE",
     logic |-> "MUST_MATCH_ANY", rules |-> <<ContainsBean>>,
     dual_entry |-> DualEntryOf(Column("Food Expenses from Business Meetings", "T"),
                                Column("Shareholder Contribution (CR)", "F"), Cents(50))]
RuleRevenue ==
    [category_name |-> "Revenue", transaction_type |-> "INCOME",
     logic |-> "MUST_MATCH_ANY", rules |-> <<ContainsTransfer>>,
     dual_entry |-> DualEntryOf(Column("Deposits DR", "D"), Column("Revenue CR", "H"), Cents(100))]
FileRulePool == {RuleTestCoffee, RuleHalfBean, RuleRevenue, RuleAnyEsso, RuleNotTim}
FileRuleLists == UNION {[1..k -> FileRulePool] : k \in 0..MaxFileRules}

PipeTx(date, description, debit, credit) ==
    [Date |-> Str(date), Description |-> Str(description), Debit |-> debit, Credit |-> credit]
\* the transactions of tests/test_pipeline.py
TxMorningCoffee == PipeTx(<<"2","0","2","5","-","0","1","-","0","1">>, <<"M","o","r","n","i","n","g"," ","C","O","F","F","E","E">>, Cents(500), Str(<<>>))
TxUnknownVendor == PipeTx(<<"2","0","2","5","-","0","1","-","0","2">>, <<"U","n","k","n","o","w","n"," ","V","e","n","d","o","r">>, Cents(2000), Str(<<>>))
\* transactions as load_csv returns them
TxTransfer == PipeTx(<<"2","0","2","5","-","1","1","-","0","2">>, <<"E","-","T","R","A","N","S","F","E","R">>, Cents(0), Cents(25000))
TxEsso == PipeTx(<<"2","0","2","5","-","1","1","-","0","5">>, <<"E","S","S","O">>, Cents(1000), Cents(0))
\* a credit-card transaction
TxCardCoffee ==
    SetItem(PipeTx(<<"2","0","2","5","-","1","1","-","0","6">>, <<"C","O","F","F","E","E"," ","B","E","A","N">>, Cents(450), Cents(0)), "source",
            Str(<<"c","r","e","d","i","t","_","c","a","r","d">>))
\* a refund written as the tests write a purchase: the other amount is ""
TxCoffeeRefund == PipeTx(<<"2","0","2","5","-","0","1","-","0","3">>, <<"C","O","F","F","E","E"," ","R","E","F","U","N","D">>, Str(<<>>), Cents(500))
PipeTxPool == {TxMorningCoffee, TxUnknownVendor, TxTransfer, TxEsso,
               TxCardCoffee, TxCoffeeRefund}
PipeTxLists == UNION {[1..k -> PipeTxPool] : k \in 0..MaxTransactions}
StartRows == {DefaultStartRow, 2}

InitPipeline ==
    /\ pipe_transactions \in PipeTxLists
    /\ rules_file \in FileRuleLists
    /\ start_row \in StartRows
    /\ pipe_idx = 0
    /\ ws = << >>
    /\ totals_row = 0
    /\ pipe_pc = "start"
    /\ IdleClassify
    /\ IdleOtherThanPipeline

\* rules = loader.load() raises ValueError
PipelineLoadRaises ==
    /\ pipe_pc = "start"
    /\ LoadRaisesValueError(rules_file)
    /\ pipe_pc' = "raised"
    /\ UNCHANGED <<pipe_transactions, rules_file, start_row, pipe_idx, ws, totals_row>>
    /\ UNCHANGED classifyVars
    /\ UNCHANGED otherThanPipeline

\* classifier = TransactionClassifier(rules); the exporter is built
PipelineLoads ==
    /\ pipe_pc = "start"
    /\ ~LoadRaisesValueError(rules_file)
    /\ rules' = rules_file
    /\ pipe_idx' = start_row
    /\ pipe_pc' = "loop"
    /\ UNCHANGED <<pipe_transactions, rules_file, start_row, ws, totals_row>>
    /\ UNCHANGED <<transaction, rule_idx, cls_pc, result>>
    /\ UNCHANGED otherThanPipeline

AtTx == pipe_pc = "loop" /\ pipe_idx - start_row < Len(pipe_transactions)
TheTx == pipe_transactions[pipe_idx - start_row + 1]

\* classification = classifier.classify(tx)
PipelineCallsClassify ==
    /\ AtTx
    /\ transaction' = TheTx
    /\ rule_idx' = 1
    /\ result' = None
    /\ cls_pc' = "loop"
    /\ pipe_pc' = "classifying"
    /\ UNCHANGED <<pipe_transactions, rules_file, start_row, pipe_idx, ws, totals_row>>
    /\ UNCHANGED rules
    /\ UNCHANGED otherThanPipeline

\* row = map_transaction_to_row(tx, classification, idx) raises
PipelineMapRaises ==
    /\ pipe_pc = "classifying"
    /\ cls_pc = "returned"
    /\ MapRaises(transaction, result)
    /\ pipe_pc' = "raised"
    /\ UNCHANGED <<pipe_transactions, rules_file, start_row, pipe_idx, ws, totals_row>>
    /\ UNCHANGED classifyVars
    /\ UNCHANGED otherThanPipeline

\* row = map_transaction_to_row(...); exporter.write_transaction(idx, row)
PipelineWritesRow ==
    /\ pipe_pc = "classifying"
    /\ cls_pc = "returned"
    /\ ~MapRaises(transaction, result)
    /\ ws' = [r \in DOMAIN ws \cup {pipe_idx} |->
                IF r = pipe_idx
                THEN write_transaction(pipe_idx, map_transaction_to_row(transaction, result))
                ELSE ws[r]]
    /\ pipe_idx' = pipe_idx + 1
    /\ pipe_pc' = "loop"
    /\ UNCHANGED <<pipe_transactions, rules_file, start_row, totals_row>>
    /\ UNCHANGED classifyVars
    /\ UNCHANGED otherThanPipeline

\* finalize_totals_row(start_row, end_row) if end_row >= start_row; return
PipelineReturns ==
    /\ pipe_pc = "loop"
    /\ pipe_idx - start_row >= Len(pipe_transactions)
    /\ totals_row' = IF pipe_idx - 1 >= start_row THEN pipe_idx ELSE 0
    /\ pipe_pc' = "returned"
    /\ UNCHANGED <<pipe_transactions, rules_file, start_row, pipe_idx, ws>>
    /\ UNCHANGED classifyVars
    /\ UNCHANGED otherThanPipeline

NextPipeline ==
    \/ PipelineLoadRaises
    \/ PipelineLoads
    \/ PipelineCallsClassify
    \/ ClassifyMatch
    \/ ClassifyNoMatch
    \/ ClassifyDefault
    \/ PipelineMapRaises
    \/ PipelineWritesRow
    \/ PipelineReturns

SpecPipeline == InitPipeline /\ [][NextPipeline]_vars

(***************************************************************************)
(* ingest.py: load_csv, normalize_row, parse_date, clean_description,      *)
(* parse_amount, looks_like_date.                                          *)
(***************************************************************************)
MaxCsvLines == 3

DEFAULT_HEADERS ==
    <<<<"D","a","t","e">>, <<"D","e","s","c","r","i","p","t","i","o","n">>, <<"D","e","b","i","t">>, <<"C","r","e","d","i","t">>, <<"B","a","l","a","n","c","e">>>>

\* value[0].isdigit() and any(sep in value for sep in ("-", "/", "."))
looks_like_date(value) ==
    IF value = <<>> THEN FALSE
    ELSE IsDigit(value[1]) /\ \E k \in 1..Len(value) : value[k] \in {"-", "/", "."}

\* value.split(sep)
RECURSIVE SplitOn(_, _)
SplitOn(s, sep) ==
    IF \A k \in 1..Len(s) : s[k] # sep THEN <<s>>
    ELSE LET k == CHOOSE k \in 1..Len(s) : s[k] = sep /\ \A j \in 1..(k - 1) : s[j] # sep
         IN  <<Slice(s, 1, k - 1)>> \o SplitOn(Slice(s, k + 1, Len(s)), sep)

\* " ".join(value.split()): the words of value, one blank between them
RECURSIVE Words(_)
Words(s) ==
    LET t == LStrip(s)
    IN  IF t = <<>> THEN <<>>
        ELSE LET ends == {k \in 1..Len(t) : t[k] \in Whitespace}
                 k == IF ends = {} THEN Len(t) + 1
                      ELSE CHOOSE k \in ends : \A j \in ends : k <= j
             IN  <<Slice(t, 1, k - 1)>> \o Words(Slice(t, k, Len(t)))
clean_description(value) ==
    IF value = None THEN <<>>
    ELSE IF value.s = <<>> THEN <<>>
    ELSE Join(<<" ">>, Words(value.s))

\* the directives %Y (four digits), %y (two digits: 69..99 are 19xx, 00..68
\* are 20xx), %m and %d (one or two digits)
IsNumber(s, lo, hi) == Len(s) >= lo /\ Len(s) <= hi /\ \A k \in 1..Len(s) : IsDigit(s[k])
TwoDigitYear(yy) == IF yy >= 69 THEN 1900 + yy ELSE 2000 + yy
\* datetime.strptime(value, fmt).date().isoformat(), None on ValueError; a
\* format is its separator and the directives of its three fields
Strptime(value, sep, directives) ==
    LET parts == SplitOn(value, sep)
        width(d) == IF d = "Y" THEN <<4, 4>> ELSE IF d = "y" THEN <<2, 2>> ELSE <<1, 2>>
        field(d) == CHOOSE k \in 1..3 : directives[k] = d
        yd == IF \E k \in 1..3 : directives[k] = "Y" THEN "Y" ELSE "y"
    IN  IF Len(parts) # 3 THEN None
        ELSE IF \E k \in 1..3 : ~IsNumber(parts[k], width(directives[k])[1], width(directives[k])[2])
        THEN None
        ELSE LET yv == DigitsValue(parts[field(yd)])
                 y == IF yd = "Y" THEN yv ELSE TwoDigitYear(yv)
             IN  IF y < 1 THEN None
                 ELSE LET iso == IsoDate(y, DigitsValue(parts[field("m")]),
                                         DigitsValue(parts[field("d")]))
                      IN  IF iso = None THEN None ELSE Str(ZeroPad(NatDigits(y), 4) \o Slice(iso.s, Len(NatDigits(y)) + 1, Len(iso.s)))

\* for fmt in ("%Y-%m-%d", "%Y/%m/%d", "%m/%d/%y", "%d-%m-%Y")
DateFormats ==
    <<  <<"-", <<"Y", "m", "d">> >>, <<"/", <<"Y", "m", "d">> >>,
        <<"/", <<"m", "d", "y">> >>, <<"-", <<"d", "m", "Y">> >>  >>
RECURSIVE TryFormats(_, _)
TryFormats(value, k) ==
    IF k > Len(DateFormats) THEN Str(value)
    ELSE IF Strptime(value, DateFormats[k][1], DateFormats[k][2]) # None
    THEN Strptime(value, DateFormats[k][1], DateFormats[k][2])
    ELSE TryFormats(value, k + 1)
parse_date(value) ==
    IF value = None THEN None
    ELSE IF value.s = <<>> THEN None
    ELSE TryFormats(Strip(value.s), 1)

\* float(value.replace(",", "").strip()), 0.0 for a blank and on ValueError
parse_amount(value) ==
    IF value = None THEN Cents(0)
    ELSE IF value.s = <<>> THEN Cents(0)
    ELSE IF ToFloat(Str(Replace(value.s, <<",">>, <<>>))) = Err THEN Cents(0)
    ELSE ToFloat(Str(Replace(value.s, <<",">>, <<>>)))

\* the row of the DictReader: the cells by field name, None for the fields
\* the line has no cell for (cells beyond the fields go under the key None)
FieldIndex(names, name) == CHOOSE k \in 1..Len(names) : names[k] = name /\ \A j \in (k + 1)..Len(names) : names[j] # name
HasField(names, name) == \E k \in 1..Len(names) : names[k] = name
Field(names, cells, name) ==
    IF ~HasField(names, name) THEN None
    ELSE IF FieldIndex(names, name) > Len(cells) THEN None
    ELSE Str(cells[FieldIndex(names, name)])

\* abs(amt)
AbsAmount(a) == [a EXCEPT !.neg = FALSE]

\* normalize_row(row)
normalize_row(names, cells) ==
    LET date == parse_date(Field(names, cells, <<"D","a","t","e">>))
        desc == Str(clean_description(Field(names, cells, <<"D","e","s","c","r","i","p","t","i","o","n">>)))
        amount == parse_amount(Field(names, cells, <<"A","m","o","u","n","t">>))
    IN  IF HasField(names, <<"D","e","b","i","t">>) \/ HasField(names, <<"C","r","e","d","i","t">>)
        THEN [Date |-> date, Description |-> desc,
              Debit |-> parse_amount(Field(names, cells, <<"D","e","b","i","t">>)),
              Credit |-> parse_amount(Field(names, cells, <<"C","r","e","d","i","t">>))]
        ELSE IF HasField(names, <<"A","m","o","u","n","t">>)
        THEN IF IsNegative(amount)
             THEN [Date |-> date, Description |-> desc, Debit |-> AbsAmount(amount), Credit |-> Cents(0)]
             ELSE [Date |-> date, Description |-> desc, Debit |-> Cents(0), Credit |-> amount]
        ELSE [Date |-> date, Description |-> desc, Debit |-> Cents(0), Credit |-> Cents(0)]

\* the lines of the files of the model
HeaderDebitCredit == DEFAULT_HEADERS
HeaderAmount == <<<<"D","a","t","e">>, <<"D","e","s","c","r","i","p","t","i","o","n">>, <<"A","m","o","u","n","t">>, <<"B","a","l","a","n","c","e">>>>
LineTransfer == <<<<"2","0","2","5","-","1","0","-","3","1">>, <<"O","N","L","I","N","E"," ","T","R","A","N","S","F","E","R">>, <<"1","5","0","0",".","0","0">>, <<>>, <<"2","0","0",".","0","0">>>>
LineETransfer == <<<<"1","1","/","0","2","/","2","5">>, <<" ","E","-","T","R","A","N","S","F","E","R"," "," ","I","N">>, <<>>, <<"1",",","2","5","0",".","0","0">>, <<"3","5","0",".","0","0">>>>
LineNegative == <<<<"2","0","2","5","/","1","0","/","3","1">>, <<"O","N","L","I","N","E"," ","T","R","A","N","S","F","E","R">>, <<"-","1","5","0","0",".","0","0">>, <<"2","0","0",".","0","0">>>>
LinePositive == <<<<"0","2","-","1","1","-","2","0","2","5">>, <<"E","-","T","R","A","N","S","F","E","R">>, <<"2","5","0",".","0","0">>, <<"3","5","0",".","0","0">>>>
LineRefund == <<<<"2","0","2","5","-","1","1","-","0","3">>, <<"R","E","F","U","N","D">>, <<"-","5",".","0","0">>, <<>>, <<"3","4","5",".","0","0">>>>
LineBlank == <<>>
LinePool == {HeaderDebitCredit, HeaderAmount, LineTransfer, LineETransfer, LineNegative,
             LinePositive, LineRefund, LineBlank}
CsvFiles == UNION {[1..n -> LinePool] : n \in 1..MaxCsvLines}

InitLoadCsv ==
    /\ csv_lines \in CsvFiles
    /\ fieldnames = <<>>
    /\ csv_i = 1
    /\ csv_transactions = <<>>
    /\ csv_pc = "open"
    /\ IdleOtherThanLoadcsv

\* first_line.split(",")[0] of the stripped first line
first_cell == IF csv_lines[1] = <<>> THEN <<>>
              ELSE IF Len(csv_lines[1]) = 1 THEN Strip(csv_lines[1][1])
              ELSE LStrip(csv_lines[1][1])

\* the first cell looks like a date: csv.DictReader(f, fieldnames=DEFAULT_HEADERS)
LoadCsvWithoutHeaders ==
    /\ csv_pc = "open"
    /\ looks_like_date(first_cell)
    /\ fieldnames' = DEFAULT_HEADERS
    /\ csv_pc' = "rows"
    /\ UNCHANGED <<csv_lines, csv_i, csv_transactions>>
    /\ UNCHANGED otherThanLoadcsv

\* csv.DictReader(f): the first line holds the field names
LoadCsvWithHeaders ==
    /\ csv_pc = "open"
    /\ ~looks_like_date(first_cell)
    /\ fieldnames' = csv_lines[1]
    /\ csv_i' = 2
    /\ csv_pc' = "rows"
    /\ UNCHANGED <<csv_lines, csv_transactions>>
    /\ UNCHANGED otherThanLoadcsv

AtLine == csv_pc = "rows" /\ csv_i <= Len(csv_lines)

\* the DictReader skips a line without cells
LoadCsvSkipsBlank ==
    /\ AtLine
    /\ csv_lines[csv_i] = <<>>
    /\ csv_i' = csv_i + 1
    /\ UNCHANGED <<csv_lines, fieldnames, csv_transactions, csv_pc>>
    /\ UNCHANGED otherThanLoadcsv

\* tx = normalize_row(row); transactions.append(tx)
LoadCsvRow ==
    /\ AtLine
    /\ csv_lines[csv_i] # <<>>
    /\ csv_transactions' = Append(csv_transactions, normalize_row(fieldnames, csv_lines[csv_i]))
    /\ csv_i' = csv_i + 1
    /\ UNCHANGED <<csv_lines, fieldnames, csv_pc>>
    /\ UNCHANGED otherThanLoadcsv

LoadCsvReturn ==
    /\ csv_pc = "rows"
    /\ csv_i > Len(csv_lines)
    /\ csv_pc' = "returned"
    /\ UNCHANGED <<csv_lines, fieldnames, csv_i, csv_transactions>>
    /\ UNCHANGED otherThanLoadcsv

NextLoadCsv ==
    \/ LoadCsvWithoutHeaders
    \/ LoadCsvWithHeaders
    \/ LoadCsvSkipsBlank
    \/ LoadCsvRow
    \/ LoadCsvReturn

SpecLoadCsv == InitLoadCsv /\ [][NextLoadCsv]_vars

(***************************************************************************)
(* rule_generator/rule_evaluator.py: the dry-run evaluator.  An operator   *)
(* gives "true" or "false", or "raise" where an exception leaves it.       *)
(***************************************************************************)
MaxEvTransactions == 2

\* _op_contains: expected.lower() in field_value.lower()
_op_contains(field_value, expected) ==
    IF field_value = None \/ expected = None THEN "false"
    ELSE IF field_value.t = "str" /\ expected.t = "str"
    THEN Bool(IsSubstr(Lower(expected.s), Lower(field_value.s)))
    ELSE "raise"

\* _op_starts_with: field_value.lower().startswith(expected.lower())
_op_starts_with(field_value, expected) ==
    IF field_value = None \/ expected = None THEN "false"
    ELSE IF field_value.t = "str" /\ expected.t = "str"
    THEN Bool(StartsWith(Lower(field_value.s), Lower(expected.s)))
    ELSE "raise"

\* _op_equals: str(field_value).lower() == str(expected).lower(); the str()
\* of a list is equal to no string of the model
_op_equals(field_value, expected) ==
    IF field_value = None /\ expected = None THEN "true"
    ELSE IF field_value = None \/ expected = None THEN "false"
    ELSE IF field_value.t = "list" \/ expected.t = "list" THEN Bool(field_value = expected)
    ELSE Bool(Lower(PyStr(field_value)) = Lower(PyStr(expected)))

\* low, high = expected: a list of two items, or a string of two characters
Unpacked(expected) ==
    IF expected.t = "list" /\ Len(expected.items) = 2 THEN expected.items
    ELSE IF expected.t = "str" /\ Len(expected.s) = 2
    THEN <<Str(<<expected.s[1]>>), Str(<<expected.s[2]>>)>>
    ELSE <<>>

\* _op_between: every exception gives False
_op_between(field_value, expected) ==
    IF Unpacked(expected) = <<>> THEN "false"
    ELSE CaughtException(BetweenNums(NumOf(Unpacked(expected)[1]), NumOf(field_value),
                                     NumOf(Unpacked(expected)[2])))

\* _op_lte: every exception gives False
_op_lte(field_value, expected) ==
    CaughtException(CompareOp("LESS_THAN_OR_EQUAL_TO", NumOf(field_value), NumOf(expected)))

_OPERATOR_DISPATCH == {"CONTAINS", "STARTS_WITH", "EQUALS", "BETWEEN", "LESS_THAN_OR_EQUAL_TO"}

Dispatch(operator, field_value, expected) ==
    CASE operator = "CONTAINS" -> _op_contains(field_value, expected)
      [] operator = "STARTS_WITH" -> _op_starts_with(field_value, expected)
      [] operator = "EQUALS" -> _op_equals(field_value, expected)
      [] operator = "BETWEEN" -> _op_between(field_value, expected)
      [] operator = "LESS_THAN_OR_EQUAL_TO" -> _op_lte(field_value, expected)

\* transaction.get(condition.get("field"))
FieldValue(condition, tx) ==
    IF "field" \in DOMAIN condition THEN Get(tx, condition.field) ELSE None

_evaluate_condition(condition, tx) ==
    IF "operator" \notin DOMAIN condition THEN "false"
    ELSE IF condition.operator \notin _OPERATOR_DISPATCH THEN "false"
    ELSE Dispatch(condition.operator, FieldValue(condition, tx), Get(condition, "value"))

\* if not results: return False; all(results) or any(results)
CombineResults(logic, results) ==
    IF results = <<>> THEN "false" ELSE Combine(logic, results)

\* item.get("rules", []) of a group, <<>> when it is not a list
GroupRules(item) ==
    IF "rules" \notin DOMAIN item THEN <<>>
    ELSE IF DOMAIN item.rules = 1..Len(item.rules) THEN item.rules ELSE <<>>

(***************************************************************************)
(* _evaluate_rule_items: a group without rules gives False, the other      *)
(* groups are evaluated by the function itself with their group_logic.     *)
(***************************************************************************)
RECURSIVE _evaluate_rule_items(_, _, _)
_evaluate_rule_items(items, tx, logic) ==
    CombineResults(logic,
        [i \in 1..Len(items) |->
            IF IsGroup(items[i])
            THEN IF GroupRules(items[i]) = <<>> THEN "false"
                 ELSE _evaluate_rule_items(GroupRules(items[i]), tx, items[i].group_logic)
            ELSE _evaluate_condition(items[i], tx)])

\* the members of a set of numbers, in ascending order
RECURSIVE Ascending(_)
Ascending(S) ==
    IF S = {} THEN <<>>
    ELSE Ascending(S \ {CHOOSE m \in S : \A o \in S : o <= m})
            \o <<CHOOSE m \in S : \A o \in S : o <= m>>

\* what _evaluate_rule_items gives for each transaction, by idx
ItemsResults(rule, txs) ==
    [idx \in 0..(Len(txs) - 1) |->
        _evaluate_rule_items(RuleConditions(rule), txs[idx + 1], RuleLogic(rule))]

\* matched_indexes of the first loop
MatchedIndexes(by_idx) == Ascending({idx \in DOMAIN by_idx : by_idx[idx] = "true"})

\* the second enumerate(transactions): an iterator has nothing left to give
SecondPass(txs, one_shot) == IF one_shot THEN {} ELSE 0..(Len(txs) - 1)

\* [tx for idx, tx in enumerate(transactions) if idx in chosen]
TakeAt(txs, chosen) == [k \in 1..Len(chosen) |-> txs[chosen[k] + 1]]

\* set(expected_matches or [])
ExpectedSet(expected_matches) == IF expected_matches = None THEN {} ELSE expected_matches.s

\* if idx in matched and idx not in expected
FalsePositiveIndexes(matched, expected, second) ==
    IF expected = {} THEN <<>>
    ELSE Ascending({idx \in second : idx \in matched /\ idx \notin expected})
\* if idx in expected and idx not in matched
FalseNegativeIndexes(matched, expected, second) ==
    IF expected = {} THEN <<>>
    ELSE Ascending({idx \in second : idx \in expected /\ idx \notin matched})

Indexes(seq) == {seq[k] : k \in 1..Len(seq)}

MatchReport(txs, matched_indexes, expected, second) ==
    [matches |-> TakeAt(txs, matched_indexes),
     false_positives |->
        TakeAt(txs, FalsePositiveIndexes(Indexes(matched_indexes), expected, second)),
     false_negatives |->
        TakeAt(txs, FalseNegativeIndexes(Indexes(matched_indexes), expected, second))]

Raised == [t |-> "raised"]

(***************************************************************************)
(* evaluate_rule: the report, or Raised when the evaluation of one         *)
(* transaction raises.                                                     *)
(***************************************************************************)
evaluate_rule(rule, txs, one_shot, expected_matches) ==
    IF \E idx \in 0..(Len(txs) - 1) : ItemsResults(rule, txs)[idx] = "raise" THEN Raised
    ELSE MatchReport(txs, MatchedIndexes(ItemsResults(rule, txs)),
                     ExpectedSet(expected_matches), SecondPass(txs, one_shot))

\* The rules and transactions given to the evaluator.
EvContainsCoffee == [logic |-> "MUST_MATCH_ANY",
                     rules |-> <<Cond("Description", "CONTAINS", Str(<<"C","O","F","F","E","E">>))>>]
EvNoConditions == [logic |-> "MUST_MATCH_ANY", rules |-> <<>>]
EvAllNoConditions == [logic |-> "MUST_MATCH_ALL", rules |-> <<>>]
EvSmallDebit == [logic |-> "MUST_MATCH_ANY",
                 rules |-> <<Cond("Debit", "LESS_THAN_OR_EQUAL_TO", Cents(5000))>>]
DebitContainsFive == Cond("Debit", "CONTAINS", Str(<<"5">>))
EvDebitContains == [logic |-> "MUST_MATCH_ANY", rules |-> <<DebitContainsFive>>]
EvRulePool == {EvContainsCoffee, EvNoConditions, EvAllNoConditions, EvSmallDebit,
               EvDebitContains, RuleFuel, RuleNotTim}

TxCoffeeShop == Tx(<<"C","O","F","F","E","E"," ","S","H","O","P">>, Cents(500), Cents(0))
TxCoffeeBeans == Tx(<<"C","O","F","F","E","E"," ","B","E","A","N","S">>, Cents(1500), Cents(0))
TxEssoCircleK == Tx(<<"E","S","S","O"," ","C","I","R","C","L","E"," ","K">>, Cents(5000), Cents(0))
TxLarge == Tx(<<"L","A","R","G","E">>, Cents(6000), Cents(0))
EvTxPool == {TxCoffeeShop, TxCoffeeBeans, TxEssoCircleK, TxLarge}

EvTransactionLists == UNION {[1..k -> EvTxPool] : k \in 0..MaxEvTransactions}
Indices(S) == [t |-> "indexes", s |-> S]
EvExpected == {None} \cup {Indices(S) : S \in SUBSET (0..MaxEvTransactions)}

InitEvaluate ==
    /\ ev_rule \in EvRulePool
    /\ ev_transactions \in EvTransactionLists
    /\ ev_one_shot \in BOOLEAN
    /\ ev_expected \in EvExpected
    /\ ev_report = Pending
    /\ IdleOtherThanEvaluate

\* evaluate_rule(rule, transactions, expected_matches=...) returns its report
EvaluateRule ==
    /\ ev_report = Pending
    /\ evaluate_rule(ev_rule, ev_transactions, ev_one_shot, ev_expected) # Raised
    /\ ev_report' = evaluate_rule(ev_rule, ev_transactions, ev_one_shot, ev_expected)
    /\ UNCHANGED <<ev_rule, ev_transactions, ev_one_shot, ev_expected>>
    /\ UNCHANGED otherThanEvaluate

\* the AttributeError of an operator leaves evaluate_rule
EvaluateRuleRaises ==
    /\ ev_report = Pending
    /\ evaluate_rule(ev_rule, ev_transactions, ev_one_shot, ev_expected) = Raised
    /\ ev_report' = Raised
    /\ UNCHANGED <<ev_rule, ev_transactions, ev_one_shot, ev_expected>>
    /\ UNCHANGED otherThanEvaluate

NextEvaluate == EvaluateRule \/ EvaluateRuleRaises

SpecEvaluate == InitEvaluate /\ [][NextEvaluate]_vars

(***************************************************************************)
(* rule_generator/core.py: RuleWizard.  An Optional[str] attribute holds   *)
(* None or Text(s); the rule dict holds the string itself, as the rules of *)
(* the classifier do.                                                      *)
(***************************************************************************)
MaxWizardItems == 2

Text(s) == [t |-> "str", s |-> s]
\* the value of an Optional[str] as the dicts hold it
Plain(x) == IF x = None THEN None ELSE x.s

\* rule[key] = value, under "if value is not None"
SetUnlessNone(d, key, value, plain) == IF value = None THEN d ELSE SetItem(d, key, plain)

\* set_dual_entry._column
_column(name, letter) ==
    IF name = None /\ letter = None THEN None
    ELSE [name |-> Plain(name), letter |-> Plain(letter)]

\* RuleWizard._build_rule_dict, once the intent is set
_build_rule_dict ==
    SetUnlessNone(
        SetUnlessNone(
            SetUnlessNone(
                SetUnlessNone(
                    [category_name |-> Plain(_category_name),
                     transaction_type |-> Plain(_transaction_type),
                     logic |-> _root_logic,
                     rules |-> _rules],
                    "rule_id", _rule_id, Plain(_rule_id)),
                "priority", _priority, _priority),
            "scope", _scope, Plain(_scope)),
        "dual_entry", _dual_entry, _dual_entry)

\* if self._category_name is None or self._transaction_type is None
IntentNotSet == _category_name = None \/ _transaction_type = None

ValueError == [t |-> "raised", exc |-> "ValueError"]
ValidatorError == [t |-> "raised", exc |-> "validator"]
EvaluatorError == [t |-> "raised", exc |-> "evaluator"]

\* the ValidationResult of the validator
Validation(valid) == [valid |-> valid]

\* a slip: the verdict of the validator is not looked at
DryRunsWhateverTheVerdict(dry_run_transactions, validation) == dry_run_transactions # None

\* if dry_run_transactions is not None and (validation is None or validation["valid"])
DryRuns(dry_run_transactions, validation) ==
    IF dry_run_transactions = None THEN FALSE
    ELSE IF validation = None THEN TRUE
    ELSE validation.valid

\* self._evaluator(rule, list(dry_run_transactions), expected_matches=expected_matches)
EvaluatorReport(call) ==
    evaluate_rule(_build_rule_dict, call.dry_run_transactions.items, FALSE,
                  call.expected_matches)

RuleBuildResult(validation, match_report) ==
    [rule |-> _build_rule_dict, validation |-> validation, match_report |-> match_report]

\* The calls made on the wizard.  finalize_call and finalize_result describe
\* the most recent call when it is finalize_rule, and are None and Pending
\* after a call of another method.
Intent(category_name, transaction_type, rule_id, priority, scope, logic) ==
    [category_name |-> category_name, transaction_type |-> transaction_type,
     rule_id |-> rule_id, priority |-> priority, scope |-> scope, logic |-> logic]
Intents == {
    Intent(Text("Office"), Text("EXPENSE"), None, None, None, Text("MUST_MATCH_ANY")),
    Intent(Text("Office"), Text("EXPENSE"), Text("office_rule"), PyInt(10), Text("td_visa"), None),
    Intent(Text("Transfers"), Text("IGNORE_TRANSACTION"), Text("transfers"), None, None, None) }

WizardConditions == {ContainsCoffee, DebitContainsFive}
WizardGroups == {Group("MUST_MATCH_ALL", <<ContainsEsso, DebitBetween>>)}

DualEntryCall(dr_name, dr_letter, cr_name, cr_letter, apply_percentage) ==
    [dr_name |-> dr_name, dr_letter |-> dr_letter, cr_name |-> cr_name,
     cr_letter |-> cr_letter, apply_percentage |-> apply_percentage]
DualEntryCalls == {
    DualEntryCall(Text("Office Expenses"), Text("I"), Text("Shareholder"), Text("F"), Cents(100)),
    DualEntryCall(Text("Fuel"), None, None, None, Cents(50)) }

FinalizeCall(validate, dry_run_transactions, expected_matches) ==
    [validate |-> validate, dry_run_transactions |-> dry_run_transactions,
     expected_matches |-> expected_matches]
FinalizeCalls ==
    {FinalizeCall(v, d, e) :
        v \in BOOLEAN,
        d \in {None, List(<<TxCoffeeShop, TxEssoCircleK>>)},
        e \in {None, Indices({0})}}

RootLogics == {"MUST_MATCH_ANY", "MUST_MATCH_ALL"}

\* RuleWizard(root_logic=...)
InitWizard ==
    /\ _root_logic \in RootLogics
    /\ _category_name = None /\ _transaction_type = None /\ _rule_id = None
    /\ _priority = None /\ _scope = None /\ _dual_entry = None
    /\ _rules = <<>>
    /\ finalize_call = None
    /\ finalize_result = Pending
    /\ IdleOtherThanWizard

\* set_intent(category_name=..., transaction_type=..., ...)
set_intent(intent) ==
    /\ _category_name' = intent.category_name
    /\ _transaction_type' = intent.transaction_type
    /\ _rule_id' = intent.rule_id
    /\ _priority' = intent.priority
    /\ _scope' = intent.scope
    /\ _root_logic' = IF intent.logic # None THEN intent.logic.s ELSE _root_logic
    /\ UNCHANGED <<_dual_entry, _rules>>

\* add_condition(field, operator, value)
add_condition(condition) ==
    /\ _rules' = Append(_rules, condition)
    /\ UNCHANGED <<_root_logic, _category_name, _transaction_type, _rule_id, _priority,
                   _scope, _dual_entry>>

\* add_group(group_logic, conditions)
add_group(group) ==
    /\ _rules' = Append(_rules, group)
    /\ UNCHANGED <<_root_logic, _category_name, _transaction_type, _rule_id, _priority,
                   _scope, _dual_entry>>

\* set_dual_entry(dr_name=..., dr_letter=..., cr_name=..., cr_letter=..., apply_percentage=...)
set_dual_entry(call) ==
    /\ _dual_entry' = [DR_COLUMN |-> _column(call.dr_name, call.dr_letter),
                       CR_COLUMN |-> _column(call.cr_name, call.cr_letter),
                       APPLY_PERCENTAGE |-> call.apply_percentage]
    /\ UNCHANGED <<_root_logic, _category_name, _transaction_type, _rule_id, _priority,
                   _scope, _rules>>

WizardUnchanged ==
    UNCHANGED <<_root_logic, _category_name, _transaction_type, _rule_id, _priority, _scope,
                _dual_entry, _rules>>

WizardSetIntent ==
    /\ \E intent \in Intents : set_intent(intent)
    /\ finalize_call' = None /\ finalize_result' = Pending
    /\ UNCHANGED otherThanWizard

WizardAddCondition ==
    /\ Len(_rules) < MaxWizardItems
    /\ \E condition \in WizardConditions : add_condition(condition)
    /\ finalize_call' = None /\ finalize_result' = Pending
    /\ UNCHANGED otherThanWizard

WizardAddGroup ==
    /\ Len(_rules) < MaxWizardItems
    /\ \E group \in WizardGroups : add_group(group)
    /\ finalize_call' = None /\ finalize_result' = Pending
    /\ UNCHANGED otherThanWizard

WizardSetDualEntry ==
    /\ \E call \in DualEntryCalls : set_dual_entry(call)
    /\ finalize_call' = None /\ finalize_result' = Pending
    /\ UNCHANGED otherThanWizard

\* finalize_rule: _build_rule_dict raises ValueError("Intent not set")
FinalizeRaisesValueError ==
    /\ IntentNotSet
    /\ \E call \in FinalizeCalls : finalize_call' = call
    /\ finalize_result' = ValueError
    /\ WizardUnchanged
    /\ UNCHANGED otherThanWizard

\* finalize_rule: the validator raises (load_rule_schema does when the schema
\* file is missing)
FinalizeValidatorRaises ==
    /\ ~IntentNotSet
    /\ \E call \in FinalizeCalls : call.validate /\ finalize_call' = call
    /\ finalize_result' = ValidatorError
    /\ WizardUnchanged
    /\ UNCHANGED otherThanWizard

\* finalize_rule returns without a dry run
FinalizeWithoutDryRun ==
    /\ ~IntentNotSet
    /\ \E call \in FinalizeCalls, valid \in BOOLEAN :
        /\ ~DryRuns(call.dry_run_transactions,
                    IF call.validate THEN Validation(valid) ELSE None)
        /\ finalize_call' = call
        /\ finalize_result' =
                RuleBuildResult(IF call.validate THEN Validation(valid) ELSE None, None)
    /\ WizardUnchanged
    /\ UNCHANGED otherThanWizard

\* finalize_rule returns with the report of the evaluator
FinalizeWithDryRun ==
    /\ ~IntentNotSet
    /\ \E call \in FinalizeCalls, valid \in BOOLEAN :
        /\ DryRuns(call.dry_run_transactions,
                   IF call.validate THEN Validation(valid) ELSE None)
        /\ EvaluatorReport(call) # Raised
        /\ finalize_call' = call
        /\ finalize_result' =
                RuleBuildResult(IF call.validate THEN Validation(valid) ELSE None,
                                EvaluatorReport(call))
    /\ WizardUnchanged
    /\ UNCHANGED otherThanWizard

\* finalize_rule: the evaluator raises
FinalizeEvaluatorRaises ==
    /\ ~IntentNotSet
    /\ \E call \in FinalizeCalls, valid \in BOOLEAN :
        /\ DryRuns(call.dry_run_transactions,
                   IF call.validate THEN Validation(valid) ELSE None)
        /\ EvaluatorReport(call) = Raised
        /\ finalize_call' = call
    /\ finalize_result' = EvaluatorError
    /\ WizardUnchanged
    /\ UNCHANGED otherThanWizard

NextWizard ==
    \/ WizardSetIntent
    \/ WizardAddCondition
    \/ WizardAddGroup
    \/ WizardSetDualEntry
    \/ FinalizeRaisesValueError
    \/ FinalizeValidatorRaises
    \/ FinalizeWithoutDryRun
    \/ FinalizeWithDryRun
    \/ FinalizeEvaluatorRaises

SpecWizard == InitWizard /\ [][NextWizard]_vars

(***************************************************************************)
(* rules.py: RuleLoader.  The file at self.path is missing, or holds a     *)
(* JSON object; its "_rules" value is a List(...) when it is a list.       *)
(***************************************************************************)
NoFile == [t |-> "missing"]
JsonObject(d) == [t |-> "dict", d |-> d]

\* os.path.exists(self.path)
PathExists(document) == document # NoFile

\* "_rules" not in data or not isinstance(data["_rules"], list)
MissingRulesArray(data) ==
    IF "_rules" \notin DOMAIN data THEN TRUE ELSE data._rules.t # "list"

Returned(value) == [t |-> "returned", value |-> value]
FileNotFoundError == [t |-> "raised", exc |-> "FileNotFoundError"]
RuntimeError == [t |-> "raised", exc |-> "RuntimeError"]

\* a rule of type EXPENSE without dual_entry
RuleWithoutDualEntry ==
    [category_name |-> "Coffee", transaction_type |-> "EXPENSE",
     logic |-> "MUST_MATCH_ANY", rules |-> <<ContainsCoffee>>]

RuleDocuments == {
    NoFile,
    JsonObject([_name |-> "rules"]),
    JsonObject([_name |-> "rules", _rules |-> None]),
    JsonObject([_name |-> "rules", _rules |-> List(<<>>)]),
    JsonObject([_name |-> "rules", _rules |-> List(<<RuleTestCoffee>>)]),
    JsonObject([_name |-> "rules", _rules |-> List(<<RuleAnyEsso, RuleHalfBean>>)]),
    JsonObject([_name |-> "rules", _rules |-> List(<<RuleTestCoffee, RuleNotTim>>)]),
    JsonObject([_name |-> "rules", _rules |-> List(<<RuleWithoutDualEntry>>)]) }

\* RuleLoader(path)
InitLoader ==
    /\ rules_document \in RuleDocuments
    /\ loader_rules = <<>>
    /\ load_outcome = Pending
    /\ get_rules_outcome = Pending
    /\ IdleOtherThanLoader

\* the file at the path is written, or removed, between two calls
DocumentChanges ==
    /\ \E document \in RuleDocuments : document # rules_document /\ rules_document' = document
    /\ get_rules_outcome' = Pending
    /\ UNCHANGED <<loader_rules, load_outcome>>
    /\ UNCHANGED otherThanLoader

\* load: raise FileNotFoundError
LoadFileNotFound ==
    /\ ~PathExists(rules_document)
    /\ load_outcome' = FileNotFoundError
    /\ get_rules_outcome' = Pending
    /\ UNCHANGED <<rules_document, loader_rules>>
    /\ UNCHANGED otherThanLoader

\* load: raise ValueError("Invalid ruleset: missing '_rules' array")
LoadInvalidRuleset ==
    /\ PathExists(rules_document)
    /\ MissingRulesArray(rules_document.d)
    /\ load_outcome' = ValueError
    /\ get_rules_outcome' = Pending
    /\ UNCHANGED <<rules_document, loader_rules>>
    /\ UNCHANGED otherThanLoader

\* load: self.rules = data["_rules"], then _validate_rule raises for one rule
LoadRejectsRule ==
    /\ PathExists(rules_document)
    /\ ~MissingRulesArray(rules_document.d)
    /\ LoadRaisesValueError(rules_document.d._rules.items)
    /\ loader_rules' = rules_document.d._rules.items
    /\ load_outcome' = ValueError
    /\ get_rules_outcome' = Pending
    /\ UNCHANGED rules_document
    /\ UNCHANGED otherThanLoader

\* load: self.rules = data["_rules"], every rule is valid, return self.rules
LoadReturns ==
    /\ PathExists(rules_document)
    /\ ~MissingRulesArray(rules_document.d)
    /\ ~LoadRaisesValueError(rules_document.d._rules.items)
    /\ loader_rules' = rules_document.d._rules.items
    /\ load_outcome' = Returned(rules_document.d._rules.items)
    /\ get_rules_outcome' = Pending
    /\ UNCHANGED rules_document
    /\ UNCHANGED otherThanLoader

\* get_rules: if not self.rules: raise RuntimeError
GetRulesRaises ==
    /\ loader_rules = <<>>
    /\ get_rules_outcome' = RuntimeError
    /\ UNCHANGED <<rules_document, loader_rules, load_outcome>>
    /\ UNCHANGED otherThanLoader

\* get_rules: return self.rules
GetRulesReturns ==
    /\ loader_rules # <<>>
    /\ get_rules_outcome' = Returned(loader_rules)
    /\ UNCHANGED <<rules_document, loader_rules, load_outcome>>
    /\ UNCHANGED otherThanLoader

NextLoader ==
    \/ DocumentChanges
    \/ LoadFileNotFound
    \/ LoadInvalidRuleset
    \/ LoadRejectsRule
    \/ LoadReturns
    \/ GetRulesRaises
    \/ GetRulesReturns

SpecLoader == InitLoader /\ [][NextLoader]_vars

(***************************************************************************)
(* rulegen.py: run_wizard, one step per group of prompts.  An answer that  *)
(* a prompt refuses is asked again and changes nothing.                    *)
(***************************************************************************)
VALID_TRANSACTION_TYPES ==
    {"EXPENSE", "INCOME_TO_OFFSET_EXPENSE", "MANUAL_CR", "MANUAL_DR", "IGNORE_TRANSACTION"}
VALID_LOGIC == {"MUST_MATCH_ANY", "MUST_MATCH_ALL"}
VALID_OPERATORS == {"CONTAINS", "STARTS_WITH", "EQUALS", "BETWEEN", "LESS_THAN_OR_EQUAL_TO"}

\* the answers given to the prompts
AnsweredTypes == VALID_TRANSACTION_TYPES \cup {"INCOME"}
AnsweredOperators == {"CONTAINS", "LESS_THAN_OR_EQUAL_TO", "REGEX", "NOT_CONTAINS"}

\* _parse_value(operator, value_raw), for the answers "COFFEE" and "50"
AnsweredValue(operator) ==
    IF operator = "LESS_THAN_OR_EQUAL_TO" THEN Cents(5000) ELSE Str(<<"C","O","F","F","E","E">>)
AnsweredField(operator) ==
    IF operator = "LESS_THAN_OR_EQUAL_TO" THEN "Debit" ELSE "Description"

\* _prompt_condition, once the operator is one of VALID_OPERATORS
_prompt_condition(operator) == Cond(AnsweredField(operator), operator, AnsweredValue(operator))

\* _prompt_group: the group of the conditions answered before "finish"
_prompt_group(group_logic, operators) ==
    Group(group_logic, [i \in 1..Len(operators) |-> _prompt_condition(operators[i])])

\* ",".join(scope) if scope else None, for the default scope
DefaultScopeValue == Text("chequing_account,saving_account,credit_card")

\* rules_doc.setdefault("_rules", []).append(rule)
AppendRule(doc, rule) ==
    IF "_rules" \in DOMAIN doc
    THEN [doc EXCEPT !._rules = List(Append(doc._rules.items, rule))]
    ELSE SetItem(doc, "_rules", List(<<rule>>))

WizardDocuments == {
    NoFile,
    JsonObject([_name |-> "rules"]),
    JsonObject([_name |-> "rules", _rules |-> List(<<RuleTestCoffee>>)]) }

MaxPromptedItems == 1
\* the operators of the conditions answered for a group, before "finish"
GroupAnswers == {<<>>, <<"CONTAINS">>}

InitRulegen ==
    /\ rules_document \in WizardDocuments
    /\ loader_rules = <<>> /\ load_outcome = Pending /\ get_rules_outcome = Pending
    /\ _root_logic = "" /\ _category_name = None /\ _transaction_type = None
    /\ _rule_id = None /\ _priority = None /\ _scope = None /\ _dual_entry = None
    /\ _rules = <<>> /\ finalize_call = None /\ finalize_result = Pending
    /\ rules_doc = None
    /\ wizard_rule = None
    /\ validation_result = None
    /\ wizard_report = None
    /\ gen_pc = "start"
    /\ IdleOtherThanRulegen

\* rules_doc = load_rules(args.rules_path) raises FileNotFoundError
RunWizardWithoutRulesFile ==
    /\ gen_pc = "start"
    /\ ~PathExists(rules_document)
    /\ gen_pc' = "raised"
    /\ UNCHANGED <<rules_doc, wizard_rule, validation_result, wizard_report>>
    /\ UNCHANGED <<wizardVars, loaderVars>>
    /\ UNCHANGED otherThanRulegen

\* rules_doc = load_rules(args.rules_path)
RunWizardLoadsRules ==
    /\ gen_pc = "start"
    /\ PathExists(rules_document)
    /\ rules_doc' = rules_document.d
    /\ gen_pc' = "intent"
    /\ UNCHANGED <<wizard_rule, validation_result, wizard_report>>
    /\ UNCHANGED <<wizardVars, loaderVars>>
    /\ UNCHANGED otherThanRulegen

\* the prompts up to the logic; wizard = RuleWizard(root_logic=logic);
\* wizard.set_intent(...)
RunWizardSetsIntent ==
    /\ gen_pc = "intent"
    /\ \E transaction_type \in AnsweredTypes, logic \in VALID_LOGIC :
        /\ transaction_type \in VALID_TRANSACTION_TYPES
        /\ set_intent(Intent(Text("Office Expenses"), Text(transaction_type),
                             Text("office-expenses"), None, DefaultScopeValue, Text(logic)))
    /\ gen_pc' = "items"
    /\ UNCHANGED <<finalize_call, finalize_result>>
    /\ UNCHANGED <<rules_doc, wizard_rule, validation_result, wizard_report>>
    /\ UNCHANGED loaderVars
    /\ UNCHANGED otherThanRulegen

\* the answer is neither "finish" nor "group": wizard.add_condition(...)
RunWizardAddsCondition ==
    /\ gen_pc = "items"
    /\ Len(_rules) < MaxPromptedItems
    /\ \E operator \in AnsweredOperators :
        /\ operator \in VALID_OPERATORS
        /\ add_condition(_prompt_condition(operator))
    /\ UNCHANGED <<finalize_call, finalize_result, gen_pc>>
    /\ UNCHANGED <<rules_doc, wizard_rule, validation_result, wizard_report>>
    /\ UNCHANGED loaderVars
    /\ UNCHANGED otherThanRulegen

\* the answer is "group": wizard.add_group(group["group_logic"], group["rules"])
RunWizardAddsGroup ==
    /\ gen_pc = "items"
    /\ Len(_rules) < MaxPromptedItems
    /\ \E group_logic \in VALID_LOGIC, operators \in GroupAnswers :
        add_group(_prompt_group(group_logic, operators))
    /\ UNCHANGED <<finalize_call, finalize_result, gen_pc>>
    /\ UNCHANGED <<rules_doc, wizard_rule, validation_result, wizard_report>>
    /\ UNCHANGED loaderVars
    /\ UNCHANGED otherThanRulegen

\* the answer is "finish"
RunWizardFinishesItems ==
    /\ gen_pc = "items"
    /\ gen_pc' = "dual"
    /\ UNCHANGED <<rules_doc, wizard_rule, validation_result, wizard_report>>
    /\ UNCHANGED <<wizardVars, loaderVars>>
    /\ UNCHANGED otherThanRulegen

\* transaction_type != "IGNORE_TRANSACTION" and the answer starts with "y":
\* wizard.set_dual_entry(...)
RunWizardConfiguresDualEntry ==
    /\ gen_pc = "dual"
    /\ _transaction_type.s # "IGNORE_TRANSACTION"
    /\ \E call \in DualEntryCalls : set_dual_entry(call)
    /\ gen_pc' = "finalize"
    /\ UNCHANGED <<finalize_call, finalize_result>>
    /\ UNCHANGED <<rules_doc, wizard_rule, validation_result, wizard_report>>
    /\ UNCHANGED loaderVars
    /\ UNCHANGED otherThanRulegen

\* the type is IGNORE_TRANSACTION, or the answer does not start with "y"
\* (the default answer is "n"): dual_entry stays None
RunWizardWithoutDualEntry ==
    /\ gen_pc = "dual"
    /\ gen_pc' = "finalize"
    /\ UNCHANGED <<rules_doc, wizard_rule, validation_result, wizard_report>>
    /\ UNCHANGED <<wizardVars, loaderVars>>
    /\ UNCHANGED otherThanRulegen

\* rule = wizard.finalize_rule(validate=False)["rule"]
RunWizardFinalizes ==
    /\ gen_pc = "finalize"
    /\ finalize_call' = FinalizeCall(FALSE, None, None)
    /\ finalize_result' = RuleBuildResult(None, None)
    /\ wizard_rule' = _build_rule_dict
    /\ gen_pc' = "checks"
    /\ WizardUnchanged
    /\ UNCHANGED <<rules_doc, validation_result, wizard_report>>
    /\ UNCHANGED loaderVars
    /\ UNCHANGED otherThanRulegen

\* the validation and the dry run, each when its answer starts with "y"; the
\* verdict of the validation is printed
RunWizardChecks ==
    /\ gen_pc = "checks"
    /\ \E validation \in {None, Validation(TRUE), Validation(FALSE)},
          dry_run \in {None, List(<<TxCoffeeShop, TxLarge>>)} :
        /\ validation_result' = validation
        /\ IF dry_run = None THEN wizard_report' = None
           ELSE /\ evaluate_rule(wizard_rule, dry_run.items, FALSE, Indices({})) # Raised
                /\ wizard_report' = evaluate_rule(wizard_rule, dry_run.items, FALSE, Indices({}))
    /\ gen_pc' = "save"
    /\ UNCHANGED <<rules_doc, wizard_rule>>
    /\ UNCHANGED <<wizardVars, loaderVars>>
    /\ UNCHANGED otherThanRulegen

\* validate_rule_block raises for want of the schema file, or the dry run
\* raises for want of the transactions file
RunWizardCheckRaises ==
    /\ gen_pc = "checks"
    /\ gen_pc' = "raised"
    /\ UNCHANGED <<rules_doc, wizard_rule, validation_result, wizard_report>>
    /\ UNCHANGED <<wizardVars, loaderVars>>
    /\ UNCHANGED otherThanRulegen

\* the answer starts with "y" (the default): the rule is appended to the
\* document and save_rules writes the document to args.rules_path
RunWizardSaves ==
    /\ gen_pc = "save"
    /\ rules_doc' = AppendRule(rules_doc, wizard_rule)
    /\ rules_document' = JsonObject(AppendRule(rules_doc, wizard_rule))
    /\ gen_pc' = "saved"
    /\ UNCHANGED <<wizard_rule, validation_result, wizard_report>>
    /\ UNCHANGED <<loader_rules, load_outcome, get_rules_outcome>>
    /\ UNCHANGED wizardVars
    /\ UNCHANGED otherThanRulegen

\* the answer does not start with "y", or the rule is saved: return
RunWizardReturns ==
    /\ gen_pc \in {"save", "saved"}
    /\ gen_pc' = "returned"
    /\ UNCHANGED <<rules_doc, wizard_rule, validation_result, wizard_report>>
    /\ UNCHANGED <<wizardVars, loaderVars>>
    /\ UNCHANGED otherThanRulegen

NextRulegen ==
    \/ RunWizardWithoutRulesFile
    \/ RunWizardLoadsRules
    \/ RunWizardSetsIntent
    \/ RunWizardAddsCondition
    \/ RunWizardAddsGroup
    \/ RunWizardFinishesItems
    \/ RunWizardConfiguresDualEntry
    \/ RunWizardWithoutDualEntry
    \/ RunWizardFinalizes
    \/ RunWizardChecks
    \/ RunWizardCheckRaises
    \/ RunWizardSaves
    \/ RunWizardReturns

SpecRulegen == InitRulegen /\ [][NextRulegen]_vars

(***************************************************************************)
(* The dry-run evaluator of rule_generator and the classifier of           *)
(* classify.py, given the same rule and the same transaction.              *)
(***************************************************************************)
MaxDryItems == 2

Verdict(v) == [t |-> "verdict", v |-> v]

ContainsNothing == Cond("Description", "CONTAINS", Str(<<>>))
EqualsNone == Cond("Description", "EQUALS", Str(<<"n","o","n","e">>))
DryItems == {ContainsCoffee, ContainsNothing, EqualsNone, StartsWithTim, DebitBetween,
             DebitAtMostSix, DebitContainsFive,
             Group("MUST_MATCH_ANY", <<>>), Group("MUST_MATCH_ALL", <<>>),
             Group("MUST_MATCH_ANY", <<ContainsEsso, Contains711>>)}
DryRules ==
    {[logic |-> logic, rules |-> items] :
        logic \in {"MUST_MATCH_ANY", "MUST_MATCH_ALL"},
        items \in UNION {[1..k -> DryItems] : k \in 0..MaxDryItems}}

TxTim == Tx(<<"T","I","M"," ","H","O","R","T","O","N","S">>, Cents(450), Cents(0))
TxDescriptionNone == [Description |-> None, Debit |-> Cents(5000), Credit |-> Cents(0)]
TxWithoutDescription == [Debit |-> Cents(450), Credit |-> Cents(0)]
TxWithoutDebit == [Description |-> Str(<<"C","O","F","F","E","E"," ","S","H","O","P">>), Debit |-> None, Credit |-> Cents(500)]
DryTransactions == {TxCoffeeShop, TxEssoCircleK, TxTim, TxDescriptionNone,
                    TxWithoutDescription, TxWithoutDebit}

InitAgree ==
    /\ dry_rule \in DryRules
    /\ dry_tx \in DryTransactions
    /\ dry_run_verdict = Pending
    /\ classifier_verdict = Pending
    /\ IdleOtherThanAgree

\* evaluate_rule: _evaluate_rule_items(rule.get("rules", []), tx, rule.get("logic", ...))
DryRunEvaluates ==
    /\ dry_run_verdict = Pending
    /\ dry_run_verdict' =
            Verdict(_evaluate_rule_items(RuleConditions(dry_rule), dry_tx, RuleLogic(dry_rule)))
    /\ UNCHANGED <<dry_rule, dry_tx, classifier_verdict>>
    /\ UNCHANGED otherThanAgree

\* classify: self._evaluate_rule(rule, transaction)
ClassifierEvaluates ==
    /\ classifier_verdict = Pending
    /\ classifier_verdict' = Verdict(_evaluate_rule(dry_rule, dry_tx))
    /\ UNCHANGED <<dry_rule, dry_tx, dry_run_verdict>>
    /\ UNCHANGED otherThanAgree

NextAgree == DryRunEvaluates \/ ClassifierEvaluates

SpecAgree == InitAgree /\ [][NextAgree]_vars

(***************************************************************************)
(* get_table_footer_bbox (pdf_ingest.py).  A page is its width and height, *)
(* the matches of the footer text on it, in the order search returns them, *)
(* and its horizontal segments.  Boxes of the page are records of x0, top, *)
(* x1 and bottom; an area to crop is the tuple (left, top, right, bottom). *)
(***************************************************************************)
MaxMatches == 2

BBox(x0, top, x1, bottom) == [x0 |-> x0, top |-> top, x1 |-> x1, bottom |-> bottom]

\* page.crop(bbox) keeps the objects that the box overlaps, a zero-height
\* line on its edge included, and clips them to the box
InCrop(obj, bbox) ==
    /\ Min(obj.x1, bbox[3]) - Max(obj.x0, bbox[1]) >= 0
    /\ Min(obj.bottom, bbox[4]) - Max(obj.top, bbox[2]) >= 0
    /\ (Min(obj.x1, bbox[3]) - Max(obj.x0, bbox[1]))
         + (Min(obj.bottom, bbox[4]) - Max(obj.top, bbox[2])) > 0
Clipped(obj, bbox) ==
    BBox(Max(obj.x0, bbox[1]), Max(obj.top, bbox[2]), Min(obj.x1, bbox[3]), Min(obj.bottom, bbox[4]))

\* search_strip.search(footer_text): the matches in the strip, in page order
RECURSIVE SearchIn(_, _)
SearchIn(texts, bbox) ==
    IF texts = <<>> THEN <<>>
    ELSE IF InCrop(Head(texts), bbox) THEN <<Clipped(Head(texts), bbox)>> \o SearchIn(Tail(texts), bbox)
    ELSE SearchIn(Tail(texts), bbox)

\* the segments of the strip longer than min_seg_length
min_seg_length == 1
min_width == 10
SegmentsIn(segments, bbox) ==
    {Clipped(s, bbox) : s \in {o \in segments : InCrop(o, bbox)}}
LongSegments(segments) == {s \in segments : s.x1 - s.x0 > min_seg_length}

\* sorted(group, key=lambda s: s["x0"])
RECURSIVE SortedByX0(_)
SortedByX0(group) ==
    IF group = {} THEN <<>>
    ELSE <<CHOOSE s \in group : \A o \in group : s.x0 < o.x0 \/ (s.x0 = o.x0 /\ s.x1 <= o.x1)>>
         \o SortedByX0(group \ {CHOOSE s \in group :
                                   \A o \in group : s.x0 < o.x0 \/ (s.x0 = o.x0 /\ s.x1 <= o.x1)})

SetMin(S) == CHOOSE m \in S : \A o \in S : m <= o

\* the groups by top, those kept that span more than min_width, by ascending top
RECURSIVE LinesOf(_, _)
LinesOf(segments, tops) ==
    IF tops = {} THEN <<>>
    ELSE IF SortedByX0({s \in segments : s.top = SetMin(tops)})[
                Cardinality({s \in segments : s.top = SetMin(tops)})].x1
            - SortedByX0({s \in segments : s.top = SetMin(tops)})[1].x0 > min_width
         THEN <<SortedByX0({s \in segments : s.top = SetMin(tops)})>>
              \o LinesOf(segments, tops \ {SetMin(tops)})
    ELSE LinesOf(segments, tops \ {SetMin(tops)})

Reversed(s) == [i \in 1..Len(s) |-> s[Len(s) + 1 - i]]

\* _extract_horizontal_lines(crop, ascending): each line is the list of its
\* segments
_extract_horizontal_lines(segments, bbox, ascending) ==
    IF ascending
    THEN LinesOf(LongSegments(SegmentsIn(segments, bbox)),
                 {s.top : s \in LongSegments(SegmentsIn(segments, bbox))})
    ELSE Reversed(LinesOf(LongSegments(SegmentsIn(segments, bbox)),
                          {s.top : s \in LongSegments(SegmentsIn(segments, bbox))}))

\* line_x0, line_top, line_x1, line_bottom of a line l
LineBox(l) == BBox(l[1].x0, l[1].top, l[Len(l)].x1, l[1].bottom)

\* a slip: any line above the text counts
IsAnywhereAbove(line, match) == line.top <= match.top + 2
\* (text_top - 5) <= line_top <= (text_top + 2)
is_vertically_aligned(line, match) == match.top - 5 <= line.top /\ line.top <= match.top + 2
\* (line_x0 <= match["x0"]) and (line_x1 >= match["x1"])
is_horizontally_covering(line, match) == line.x0 <= match.x0 /\ line.x1 >= match.x1

\* the loop over horizontal_lines: the box of the first line that is aligned
\* with the match and covers it, None when there is none
RECURSIVE LineAbove(_, _)
LineAbove(lines, match) ==
    IF lines = <<>> THEN None
    ELSE IF is_vertically_aligned(LineBox(Head(lines)), match)
            /\ is_horizontally_covering(LineBox(Head(lines)), match)
         THEN LineBox(Head(lines))
    ELSE LineAbove(Tail(lines), match)

\* match["x0"] >= header_x0 and (match["x1"] <= header_x1 or match["x1"] <= page.width * 0.5)
overlaps_header(match, range, width) ==
    IF range = None THEN TRUE
    ELSE match.x0 >= range.v[1] /\ (match.x1 <= range.v[2] \/ 2 * match.x1 <= width)

\* the loop over matches that fills valid_matches
RECURSIVE ValidMatches(_, _, _, _)
ValidMatches(found, lines, range, width) ==
    IF found = <<>> THEN <<>>
    ELSE IF LineAbove(lines, Head(found)) # None /\ overlaps_header(Head(found), range, width)
         THEN <<[text_bbox |-> Head(found), line_bbox |-> LineAbove(lines, Head(found))]>>
              \o ValidMatches(Tail(found), lines, range, width)
    ELSE ValidMatches(Tail(found), lines, range, width)

\* a slip: the first valid match, wherever it is
FirstOf(valid) == valid[1]
\* min(valid_matches, key=lambda r: r["text_bbox"]["top"]): the first of the
\* list among those with the least top
TopMost(valid) ==
    valid[CHOOSE i \in 1..Len(valid) :
            /\ \A j \in 1..Len(valid) : valid[i].text_bbox.top <= valid[j].text_bbox.top
            /\ \A j \in 1..(i - 1) : valid[j].text_bbox.top > valid[i].text_bbox.top]

get_table_footer_bbox(page, area, range) ==
    IF SearchIn(page.texts, area) = <<>> THEN None
    ELSE IF ValidMatches(SearchIn(page.texts, area),
                         _extract_horizontal_lines(page.segments, area, FALSE),
                         range, page.width) = <<>> THEN None
    ELSE TopMost(ValidMatches(SearchIn(page.texts, area),
                              _extract_horizontal_lines(page.segments, area, FALSE),
                              range, page.width))

\* a page of 100 by 100 and the slice from 20 to 60 of it
FooterPage(texts, segments) ==
    [width |-> 100, height |-> 100, texts |-> texts, segments |-> segments]
SearchAreas == {<<0, 20, 100, 60>>}
XRange(x0, x1) == [t |-> "tuple", v |-> <<x0, x1>>]
HeaderRanges == {None, XRange(10, 40)}
\* the footer text in the slice, higher in the slice, below the slice, past
\* the header but left of the middle, past the middle, left of the header,
\* and across the bottom of the slice
TextInSlice == BBox(10, 40, 30, 44)
TextHigher == BBox(10, 30, 30, 34)
TextBelowSlice == BBox(10, 70, 30, 74)
TextPastHeader == BBox(10, 40, 45, 44)
TextPastMiddle == BBox(10, 40, 60, 44)
TextLeftOfHeader == BBox(5, 40, 30, 44)
TextAcrossBottom == BBox(10, 58, 30, 62)
TextPool == {TextInSlice, TextHigher, TextBelowSlice, TextPastHeader, TextPastMiddle,
             TextLeftOfHeader, TextAcrossBottom}
Rule(x0, x1, top) == BBox(x0, top, x1, top)
\* the rule lines of a page: none, one two above the text in the slice, one
\* two above the higher text, both, one six above the text in the slice, one
\* that starts right of the text, one in two segments just inside the text, a
\* dash, a dash and a line that starts where it ends, a line and a dash over
\* it, and lines for the texts at and below the bottom of the slice
SegmentLayouts == {
    {},
    {Rule(5, 60, 38)},
    {Rule(10, 60, 28)},
    {Rule(5, 60, 38), Rule(10, 60, 28)},
    {Rule(5, 60, 34)},
    {Rule(15, 60, 38)},
    {Rule(5, 25, 42), Rule(28, 60, 42)},
    {Rule(10, 18, 38)},
    {Rule(10, 18, 38), Rule(18, 60, 38)},
    {Rule(5, 60, 38), Rule(10, 18, 38)},
    {Rule(5, 60, 56), Rule(5, 60, 68)} }
FooterPages ==
    {FooterPage(texts, segments) :
        texts \in UNION {[1..n -> TextPool] : n \in 0..MaxMatches},
        segments \in SegmentLayouts}

InitFooter ==
    /\ footer_page \in FooterPages
    /\ search_area_bbox \in SearchAreas
    /\ header_x_range \in HeaderRanges
    /\ footer_returned = Pending
    /\ IdleOtherThanFooter

GetTableFooterBbox ==
    /\ footer_returned = Pending
    /\ footer_returned' = get_table_footer_bbox(footer_page, search_area_bbox, header_x_range)
    /\ UNCHANGED <<footer_page, search_area_bbox, header_x_range>>
    /\ UNCHANGED otherThanFooter

NextFooter == GetTableFooterBbox
SpecFooter == InitFooter /\ [][NextFooter]_vars

(***************************************************************************)
(* parse_pdf (pdf_ingest.py), the sections of one page: the window below   *)
(* each section header, the footer that tightens it, the strip handed to   *)
(* validate_table_presence, the edges of get_table_edges and the box that  *)
(* is cropped for the extraction.  get_table_footer_bbox and               *)
(* validate_table_presence are called as modelled above.  Every box passed *)
(* to crop is recorded with the box of the page or crop it is taken from.  *)
(***************************************************************************)
PageBox(page) == <<0, 0, page.width, page.height>>
AsTuple(box) == <<box.x0, box.top, box.x1, box.bottom>>

\* a box has an area
HasArea(bbox) == bbox[3] > bbox[1] /\ bbox[4] > bbox[2]
\* a box lies within another
Within(bbox, parent) ==
    /\ parent[1] <= bbox[1] /\ bbox[3] <= parent[3]
    /\ parent[2] <= bbox[2] /\ bbox[4] <= parent[4]

\* crop raises ValueError for a box without area and for a box that is not
\* within the page or crop it is taken from (pdfplumber, strict)
Crop(role, bbox, parent) == [role |-> role, bbox |-> bbox, parent |-> parent]
CropRaises(c) == ~HasArea(c.bbox) \/ ~Within(c.bbox, c.parent)

\* the crops of a helper up to the first that raises
RECURSIVE UntilRaise(_)
UntilRaise(crops) ==
    IF crops = <<>> THEN <<>>
    ELSE IF CropRaises(Head(crops)) THEN <<Head(crops)>>
    ELSE <<Head(crops)>> \o UntilRaise(Tail(crops))
AnyRaises(crops) == \E k \in 1..Len(crops) : CropRaises(crops[k])

\* crop.rects, and the large rectangles among them
\* [r for r in crop.rects if (r["x1"] - r["x0"]) > 100 and (r["y1"] - r["y0"]) > h]
RectsIn(rects, bbox) == SearchIn(rects, bbox)
LargeRects(rects, h) == SelectSeq(rects, LAMBDA r : r.x1 - r.x0 > 100 /\ r.bottom - r.top > h)
\* min(td_rects, key=lambda r: r["top"])
TopRect(rects) ==
    rects[CHOOSE i \in 1..Len(rects) :
            /\ \A j \in 1..Len(rects) : rects[i].top <= rects[j].top
            /\ \A j \in 1..(i - 1) : rects[j].top > rects[i].top]

\* the words of the header labels that a crop holds, and a word as the crop gives it
WordsIn(words, bbox) == {w \in words : InCrop(w, bbox)}
ClippedWord(w, bbox) ==
    [label |-> w.label, x0 |-> Max(w.x0, bbox[1]), top |-> Max(w.top, bbox[2]),
     x1 |-> Min(w.x1, bbox[3]), bottom |-> Min(w.bottom, bbox[4])]
LabelsIn(words, bbox) == {w.label : w \in WordsIn(words, bbox)}

(***************************************************************************)
(* validate_table_presence: its crops and the header zone it reads         *)
(***************************************************************************)
presence_header_buffer == 60

\* header_zone_bbox of validate_table_presence
PresenceZone(page, strip, bank) ==
    IF bank = "TD Visa" /\ LargeRects(RectsIn(page.rects, strip), 20) # <<>>
    THEN <<strip[1], TopRect(LargeRects(RectsIn(page.rects, strip), 20)).top - 2,
           strip[3], TopRect(LargeRects(RectsIn(page.rects, strip), 20)).bottom + 2>>
    ELSE <<strip[1], strip[2], strip[3], Min(strip[2] + presence_header_buffer, strip[4])>>

\* crop = page.crop(strip_bbox), and with labels header_crop = page.crop(header_zone_bbox)
PresenceCrops(page, strip, labels, bank) ==
    UntilRaise(<<Crop("strip", strip, PageBox(page))>>
               \o (IF labels = <<>> THEN <<>>
                   ELSE <<Crop("header_zone", PresenceZone(page, strip, bank), PageBox(page))>>))

(***************************************************************************)
(* get_table_header_bbox and get_table_edges                               *)
(***************************************************************************)
header_buffer == 50
padding == 2

\* the first horizontal line of the crop, for Triangle MasterCard
FirstLine(page, area) == _extract_horizontal_lines(page.segments, area, TRUE)[1]
HasFirstLine(page, area, bank) ==
    bank = "Triangle MasterCard" /\ _extract_horizontal_lines(page.segments, area, TRUE) # <<>>

\* header_zone_bbox of get_table_header_bbox
EdgesZone(page, area, bank) ==
    IF HasFirstLine(page, area, bank)
    THEN <<area[1], area[2], area[3], LineBox(FirstLine(page, area)).top>>
    ELSE IF bank = "TD Visa" /\ LargeRects(RectsIn(page.rects, area), 10) # <<>>
    THEN <<area[1], TopRect(LargeRects(RectsIn(page.rects, area), 10)).top - padding,
           area[3], TopRect(LargeRects(RectsIn(page.rects, area), 10)).bottom + padding>>
    ELSE <<area[1], area[2], area[3], Min(area[4], area[2] + header_buffer)>>

\* header_bbox["line_bbox"]
HeaderLine(page, area, bank) ==
    IF HasFirstLine(page, area, bank) THEN LineBox(FirstLine(page, area)) ELSE None

\* t and b, from the matches of the labels in the header crop
SetMax(S) == CHOOSE m \in S : \A o \in S : m >= o
HeaderTop(found, area) ==
    IF found = {} THEN area[2]
    ELSE Max(area[2], SetMin({w.top : w \in found}) - padding)
HeaderBottom(found, area) ==
    IF found = {} THEN area[4]
    ELSE Min(area[4], SetMax({w.bottom : w \in found}) + padding)

\* the matches of the labels in the header crop, clipped to it
HeaderMatches(page, zone) == {ClippedWord(w, zone) : w \in WordsIn(page.words, zone)}

\* header_bbox["text_bbox"], as the tuple of its values
HeaderTextBox(page, area, bank) ==
    <<area[1], HeaderTop(HeaderMatches(page, EdgesZone(page, area, bank)), area),
      area[3], HeaderBottom(HeaderMatches(page, EdgesZone(page, area, bank)), area)>>

\* header_bbox["coords"]: (left, t, right, max(b, line_bottom_y))
HeaderCoords(page, area, bank) ==
    <<area[1], HeaderTextBox(page, area, bank)[2], area[3],
      Max(HeaderTextBox(page, area, bank)[4],
          IF HeaderLine(page, area, bank) = None THEN 0 ELSE HeaderLine(page, area, bank).bottom)>>

\* the loop over header_labels of the word-aware refinement: the boxes of
\* segment_crop, one for each label that no word at or right of the cursor
\* holds; a word that is found moves the cursor to its right edge
RECURSIVE SegmentBoxes(_, _, _, _)
SegmentBoxes(labels, words, cursor, text_box) ==
    IF labels = <<>> THEN <<>>
    ELSE IF \E w \in words : w.label = Head(labels) /\ w.x0 >= cursor - 1
         THEN SegmentBoxes(Tail(labels), words,
                           (CHOOSE w \in words : w.label = Head(labels) /\ w.x0 >= cursor - 1).x1,
                           text_box)
    ELSE <<<<cursor, text_box[2], text_box[3], text_box[4]>>>>
         \o SegmentBoxes(Tail(labels), words, cursor, text_box)

\* the crops of get_table_header_bbox, in order: the search area for the two
\* banks with a layout of their own, the header zone, the text box and the
\* segments; the first line of the pages here has fewer than five segments
HeaderCrops(page, area, labels, bank) ==
    UntilRaise(
        (IF bank \in {"Triangle MasterCard", "TD Visa"}
         THEN <<Crop("strip", area, PageBox(page))>> ELSE <<>>)
        \o <<Crop("header_zone", EdgesZone(page, area, bank), PageBox(page)),
             Crop("header_text", HeaderTextBox(page, area, bank), PageBox(page))>>
        \o [k \in 1..Len(SegmentBoxes(labels,
                                      {ClippedWord(w, HeaderTextBox(page, area, bank)) :
                                          w \in WordsIn(page.words, HeaderTextBox(page, area, bank))},
                                      area[1], HeaderTextBox(page, area, bank)))
              |-> Crop("segment",
                       SegmentBoxes(labels,
                                    {ClippedWord(w, HeaderTextBox(page, area, bank)) :
                                        w \in WordsIn(page.words, HeaderTextBox(page, area, bank))},
                                    area[1], HeaderTextBox(page, area, bank))[k],
                       EdgesZone(page, area, bank))])

\* table_left and table_right: the ends of the header line and of the footer
\* line, the sides of the header where there is neither
TableLeft(header_line, footer, header_left) ==
    IF header_line # None /\ footer # None THEN Min(header_line.x0, footer.line_bbox.x0)
    ELSE IF header_line # None THEN header_line.x0
    ELSE IF footer # None THEN footer.line_bbox.x0
    ELSE header_left
TableRight(header_line, footer, header_right) ==
    IF header_line # None /\ footer # None THEN Max(header_line.x1, footer.line_bbox.x1)
    ELSE IF header_line # None THEN header_line.x1
    ELSE IF footer # None THEN footer.line_bbox.x1
    ELSE header_right

\* table_footer_top
TableFooterTop(area, footer) == IF footer # None THEN footer.line_bbox.top ELSE area[4]

\* the dict get_table_edges returns for a section with labels
TableEdges(page, area, bank, footer) ==
    [coords |-> <<TableLeft(HeaderLine(page, area, bank), footer, area[1]),
                  HeaderCoords(page, area, bank)[2],
                  TableRight(HeaderLine(page, area, bank), footer, area[3]),
                  TableFooterTop(area, footer)>>,
     rows_bbox |-> <<TableLeft(HeaderLine(page, area, bank), footer, area[1]),
                     HeaderCoords(page, area, bank)[4],
                     TableRight(HeaderLine(page, area, bank), footer, area[3]),
                     TableFooterTop(area, footer)>>]

(***************************************************************************)
(* The pages: a page of 200 by 200 with the header of a section at 10 to   *)
(* 20 and, on some, the header of a second section below it.               *)
(***************************************************************************)
Word(label, x0, top, x1, bottom) ==
    [label |-> label, x0 |-> x0, top |-> top, x1 |-> x1, bottom |-> bottom]
\* the labels of the table header: none on the page, from left to right, and
\* with the first of them at the right
WordLayouts == {
    {},
    {Word("Date", 10, 30, 30, 38), Word("Description", 40, 30, 90, 38), Word("Amount", 100, 30, 140, 38)},
    {Word("Date", 100, 30, 120, 38), Word("Description", 40, 30, 90, 38), Word("Amount", 130, 30, 160, 38)} }
\* the rule under the labels: none, a line at 40, and a thin rectangle across
\* the bottom of the section header
HeaderRules == { {}, {Rule(10, 150, 40)}, {BBox(10, 19, 150, 21)} }
\* the footer text and its rule: none; a footer at 80; one that ends two above
\* the next header; one that ends two above the bottom of the page; one under
\* a short rule; one without a rule
Footer(texts, segments) == [texts |-> texts, segments |-> segments]
FooterLayouts == {
    Footer(<<>>, {}),
    Footer(<<BBox(10, 80, 50, 90)>>, {Rule(10, 150, 78)}),
    Footer(<<BBox(10, 92, 50, 98)>>, {Rule(10, 150, 90)}),
    Footer(<<BBox(10, 190, 50, 198)>>, {Rule(10, 150, 188)}),
    Footer(<<BBox(10, 80, 30, 90)>>, {Rule(10, 45, 78)}),
    Footer(<<BBox(10, 80, 50, 90)>>, {}) }
\* no rectangle, and the box around the labels
RectLayouts == {<<>>, <<BBox(10, 25, 150, 50)>>}

WindowPages ==
    {[width |-> 200, height |-> 200, texts |-> f.texts, segments |-> h \cup f.segments,
      rects |-> r, words |-> w] :
        f \in FooterLayouts, h \in HeaderRules, r \in RectLayouts, w \in WordLayouts}

Banks == {"TD Visa", "Triangle MasterCard", "CIBC"}

\* the sections of the profile: with or without a footer text and labels
WindowSections ==
    {[match_text |-> "PURCHASES"],
     [match_text |-> "PURCHASES", footer_row_text |-> "TOTAL"],
     [match_text |-> "PURCHASES", header_labels |-> Labels(3)],
     [match_text |-> "PURCHASES", footer_row_text |-> "TOTAL", header_labels |-> Labels(3)]}
SectionBelow == [match_text |-> "FEES", footer_row_text |-> "TOTAL"]

Position(section, top, bottom, left, right) ==
    [section |-> section, top |-> top, bottom |-> bottom, left |-> left, right |-> right]
\* the header of the second section: none, at 100, just under the first, and
\* on the line of the first
HeadersBelow ==
    {<<>>, <<Position(SectionBelow, 100, 110, 10, 60)>>, <<Position(SectionBelow, 21, 31, 10, 60)>>,
     <<Position(SectionBelow, 15, 25, 10, 60)>>}

HasFooterMarker(section) == "footer_row_text" \in DOMAIN section

InitWindow ==
    /\ win_page \in WindowPages
    /\ win_bank \in Banks
    /\ \E s \in WindowSections, below \in HeadersBelow :
          win_positions = <<Position(s, 10, 20, 10, 60)>> \o below
    /\ win_i = 1
    /\ start_y = 0 /\ max_y = 0 /\ end_y = 0
    /\ table_edges = None
    /\ crop_box = <<>>
    /\ cropped = <<>>
    /\ win_pc = "section"
    /\ strip_bbox = <<>> /\ footer_bbox = None /\ crop_lines = <<>> /\ crop_rects = <<>>
    /\ header_labels = <<>> /\ found_labels = {} /\ presence = None
    /\ footer_page = None /\ search_area_bbox = <<>> /\ header_x_range = None
    /\ footer_returned = None
    /\ IdleOtherThanWindow

AtPosition == win_pc = "section" /\ win_i <= Len(win_positions)
ThePosition == win_positions[win_i]
\* max_y: the top of the next header, or the height of the page
Floor ==
    IF win_i + 1 <= Len(win_positions) THEN win_positions[win_i + 1].top ELSE win_page.height
\* search_area_bbox = (0.0, start_y, float(page.width), max_y)
FooterSearchArea == <<0, ThePosition.bottom, win_page.width, Floor>>

\* no footer_row_text: the window ends at max_y
SectionWithoutFooter ==
    /\ AtPosition
    /\ ~HasFooterMarker(ThePosition.section)
    /\ start_y' = ThePosition.bottom
    /\ max_y' = Floor
    /\ end_y' = Floor
    /\ footer_bbox' = None
    /\ win_pc' = "window"
    /\ UNCHANGED <<win_page, win_bank, win_positions, win_i, table_edges, crop_box, cropped>>
    /\ UNCHANGED <<strip_bbox, crop_lines, crop_rects, header_labels, found_labels, presence>>
    /\ UNCHANGED footerVars
    /\ UNCHANGED otherThanWindow

\* get_table_footer_bbox is called: search_strip = page.crop(search_area_bbox)
SectionSearchesFooter ==
    /\ AtPosition
    /\ HasFooterMarker(ThePosition.section)
    /\ ~CropRaises(Crop("footer_search", FooterSearchArea, PageBox(win_page)))
    /\ start_y' = ThePosition.bottom
    /\ max_y' = Floor
    /\ end_y' = Floor
    /\ footer_bbox' = None
    /\ footer_page' = win_page
    /\ search_area_bbox' = FooterSearchArea
    /\ header_x_range' = XRange(ThePosition.left, ThePosition.right)
    /\ footer_returned' = Pending
    /\ cropped' = Append(cropped, Crop("footer_search", FooterSearchArea, PageBox(win_page)))
    /\ win_pc' = "footer"
    /\ UNCHANGED <<win_page, win_bank, win_positions, win_i, table_edges, crop_box>>
    /\ UNCHANGED <<strip_bbox, crop_lines, crop_rects, header_labels, found_labels, presence>>
    /\ UNCHANGED otherThanWindow

\* the crop of the search area raises: the except of parse_pdf ends the walk
FooterSearchRaises ==
    /\ AtPosition
    /\ HasFooterMarker(ThePosition.section)
    /\ CropRaises(Crop("footer_search", FooterSearchArea, PageBox(win_page)))
    /\ start_y' = ThePosition.bottom
    /\ max_y' = Floor
    /\ end_y' = Floor
    /\ footer_bbox' = None
    /\ cropped' = Append(cropped, Crop("footer_search", FooterSearchArea, PageBox(win_page)))
    /\ win_pc' = "raised"
    /\ UNCHANGED <<win_page, win_bank, win_positions, win_i, table_edges, crop_box>>
    /\ UNCHANGED <<strip_bbox, crop_lines, crop_rects, header_labels, found_labels, presence>>
    /\ UNCHANGED footerVars
    /\ UNCHANGED otherThanWindow

\* if footer_bbox and float(footer_bbox["text_bbox"]["top"]) > start_y:
\*     end_y = float(footer_bbox["text_bbox"]["bottom"]) + 5
Tightened(footer, start, end) ==
    IF footer = None THEN end
    ELSE IF footer.text_bbox.top > start THEN footer.text_bbox.bottom + 5
    ELSE end

FooterTightens ==
    /\ win_pc = "footer"
    /\ footer_returned # Pending
    /\ footer_bbox' = footer_returned
    /\ end_y' = Tightened(footer_returned, start_y, end_y)
    /\ win_pc' = "window"
    /\ UNCHANGED <<win_page, win_bank, win_positions, win_i, start_y, max_y, table_edges,
                   crop_box, cropped>>
    /\ UNCHANGED <<strip_bbox, crop_lines, crop_rects, header_labels, found_labels, presence>>
    /\ UNCHANGED footerVars
    /\ UNCHANGED otherThanWindow

\* if end_y <= start_y + 2: continue
WindowIsInvalid == end_y <= start_y + 2

WindowRejected ==
    /\ win_pc = "window"
    /\ WindowIsInvalid
    /\ win_i' = win_i + 1
    /\ win_pc' = "section"
    /\ UNCHANGED <<win_page, win_bank, win_positions, start_y, max_y, end_y, table_edges,
                   crop_box, cropped>>
    /\ UNCHANGED presenceVars
    /\ UNCHANGED footerVars
    /\ UNCHANGED otherThanWindow

\* strip_bbox: the ends of the footer line, or the width of the page
StripBox(page, footer, start, end) ==
    <<IF footer # None THEN footer.line_bbox.x0 ELSE 0, start,
      IF footer # None THEN footer.line_bbox.x1 ELSE page.width, end>>
TheStrip == StripBox(win_page, footer_bbox, start_y, end_y)
TheLabels == ExpectedLabels(ThePosition.section)

\* validate_table_presence is called with the strip
SectionCallsPresence ==
    /\ win_pc = "window"
    /\ ~WindowIsInvalid
    /\ ~AnyRaises(PresenceCrops(win_page, TheStrip, TheLabels, win_bank))
    /\ strip_bbox' = TheStrip
    /\ crop_lines' = _extract_horizontal_lines(win_page.segments, TheStrip, TRUE)
    /\ crop_rects' = RectsIn(win_page.rects, TheStrip)
    /\ header_labels' = TheLabels
    /\ found_labels' = LabelsIn(win_page.words, PresenceZone(win_page, TheStrip, win_bank))
    /\ presence' = Pending
    /\ cropped' = cropped \o PresenceCrops(win_page, TheStrip, TheLabels, win_bank)
    /\ win_pc' = "presence"
    /\ UNCHANGED <<win_page, win_bank, win_positions, win_i, start_y, max_y, end_y,
                   table_edges, crop_box>>
    /\ UNCHANGED footer_bbox
    /\ UNCHANGED footerVars
    /\ UNCHANGED otherThanWindow

\* a crop of validate_table_presence raises
PresenceRaises ==
    /\ win_pc = "window"
    /\ ~WindowIsInvalid
    /\ AnyRaises(PresenceCrops(win_page, TheStrip, TheLabels, win_bank))
    /\ strip_bbox' = TheStrip
    /\ cropped' = cropped \o PresenceCrops(win_page, TheStrip, TheLabels, win_bank)
    /\ win_pc' = "raised"
    /\ UNCHANGED <<win_page, win_bank, win_positions, win_i, start_y, max_y, end_y,
                   table_edges, crop_box>>
    /\ UNCHANGED <<footer_bbox, crop_lines, crop_rects, header_labels, found_labels, presence>>
    /\ UNCHANGED footerVars
    /\ UNCHANGED otherThanWindow

\* if not validate_table_presence(...): continue
PresenceRejects ==
    /\ win_pc = "presence"
    /\ presence = PyBool(FALSE)
    /\ win_i' = win_i + 1
    /\ win_pc' = "section"
    /\ UNCHANGED <<win_page, win_bank, win_positions, start_y, max_y, end_y, table_edges,
                   crop_box, cropped>>
    /\ UNCHANGED presenceVars
    /\ UNCHANGED footerVars
    /\ UNCHANGED otherThanWindow

\* get_table_edges returns None: no header_labels
EdgesFallback ==
    /\ win_pc = "presence"
    /\ presence = PyBool(TRUE)
    /\ TheLabels = <<>>
    /\ table_edges' = None
    /\ win_pc' = "edges"
    /\ UNCHANGED <<win_page, win_bank, win_positions, win_i, start_y, max_y, end_y,
                   crop_box, cropped>>
    /\ UNCHANGED presenceVars
    /\ UNCHANGED footerVars
    /\ UNCHANGED otherThanWindow

\* get_table_edges returns the edges
EdgesResolved ==
    /\ win_pc = "presence"
    /\ presence = PyBool(TRUE)
    /\ TheLabels # <<>>
    /\ ~AnyRaises(HeaderCrops(win_page, strip_bbox, TheLabels, win_bank))
    /\ table_edges' = TableEdges(win_page, strip_bbox, win_bank, footer_bbox)
    /\ cropped' = cropped \o HeaderCrops(win_page, strip_bbox, TheLabels, win_bank)
    /\ win_pc' = "edges"
    /\ UNCHANGED <<win_page, win_bank, win_positions, win_i, start_y, max_y, end_y, crop_box>>
    /\ UNCHANGED presenceVars
    /\ UNCHANGED footerVars
    /\ UNCHANGED otherThanWindow

\* a crop of get_table_header_bbox raises
EdgesRaise ==
    /\ win_pc = "presence"
    /\ presence = PyBool(TRUE)
    /\ TheLabels # <<>>
    /\ AnyRaises(HeaderCrops(win_page, strip_bbox, TheLabels, win_bank))
    /\ cropped' = cropped \o HeaderCrops(win_page, strip_bbox, TheLabels, win_bank)
    /\ win_pc' = "raised"
    /\ UNCHANGED <<win_page, win_bank, win_positions, win_i, start_y, max_y, end_y,
                   table_edges, crop_box>>
    /\ UNCHANGED presenceVars
    /\ UNCHANGED footerVars
    /\ UNCHANGED otherThanWindow

\* left_x, top_y, right_x, bottom_y: the coords of the edges, or the corridor
\* of the fallback
min_w_threshold == 50
min_h_threshold == 10
TableBox ==
    IF table_edges # None THEN table_edges.coords
    ELSE <<Max(0, ThePosition.left - 1), start_y, Min(win_page.width, strip_bbox[3]), end_y>>
TooSmall(bbox) == bbox[3] - bbox[1] < min_w_threshold \/ bbox[4] - bbox[2] < min_h_threshold
\* the two guards before the crop
CropIsInvalid ==
    IF table_edges # None THEN TooSmall(table_edges.rows_bbox) \/ TooSmall(TableBox)
    ELSE TooSmall(TableBox)
\* crop_box = rows_bbox or (left_x, top_y, right_x, bottom_y)
TheCrop ==
    IF table_edges # None THEN Crop("rows", table_edges.rows_bbox, PageBox(win_page))
    ELSE Crop("table", TableBox, PageBox(win_page))

CropRejected ==
    /\ win_pc = "edges"
    /\ CropIsInvalid
    /\ win_i' = win_i + 1
    /\ win_pc' = "section"
    /\ UNCHANGED <<win_page, win_bank, win_positions, start_y, max_y, end_y, table_edges,
                   crop_box, cropped>>
    /\ UNCHANGED presenceVars
    /\ UNCHANGED footerVars
    /\ UNCHANGED otherThanWindow

\* cropped_page = page.crop(crop_box)
SectionCropped ==
    /\ win_pc = "edges"
    /\ ~CropIsInvalid
    /\ crop_box' = TheCrop.bbox
    /\ cropped' = Append(cropped, TheCrop)
    /\ win_pc' = IF CropRaises(TheCrop) THEN "section" ELSE "extract"
    /\ win_i' = IF CropRaises(TheCrop) THEN win_i + 1 ELSE win_i
    /\ UNCHANGED <<win_page, win_bank, win_positions, start_y, max_y, end_y, table_edges>>
    /\ UNCHANGED presenceVars
    /\ UNCHANGED footerVars
    /\ UNCHANGED otherThanWindow

\* the rows box gave a table, or there was no rows box
SectionExtracted ==
    /\ win_pc = "extract"
    /\ win_i' = win_i + 1
    /\ win_pc' = "section"
    /\ UNCHANGED <<win_page, win_bank, win_positions, start_y, max_y, end_y, table_edges,
                   crop_box, cropped>>
    /\ UNCHANGED presenceVars
    /\ UNCHANGED footerVars
    /\ UNCHANGED otherThanWindow

\* the rows box gave no table: cropped_page = page.crop((left_x, top_y, right_x, bottom_y))
SectionCropsTableBox ==
    /\ win_pc = "extract"
    /\ table_edges # None
    /\ cropped' = Append(cropped, Crop("table", TableBox, PageBox(win_page)))
    /\ win_i' = win_i + 1
    /\ win_pc' = "section"
    /\ UNCHANGED <<win_page, win_bank, win_positions, start_y, max_y, end_y, table_edges,
                   crop_box>>
    /\ UNCHANGED presenceVars
    /\ UNCHANGED footerVars
    /\ UNCHANGED otherThanWindow

\* the loop over page_section_positions is over
WindowPageDone ==
    /\ win_pc = "section"
    /\ win_i > Len(win_positions)
    /\ win_pc' = "done"
    /\ UNCHANGED <<win_page, win_bank, win_positions, win_i, start_y, max_y, end_y,
                   table_edges, crop_box, cropped>>
    /\ UNCHANGED presenceVars
    /\ UNCHANGED footerVars
    /\ UNCHANGED otherThanWindow

NextWindow ==
    \/ SectionWithoutFooter
    \/ SectionSearchesFooter
    \/ FooterSearchRaises
    \/ GetTableFooterBbox
    \/ FooterTightens
    \/ WindowRejected
    \/ SectionCallsPresence
    \/ PresenceRaises
    \/ ValidateTablePresence
    \/ PresenceRejects
    \/ EdgesFallback
    \/ EdgesResolved
    \/ EdgesRaise
    \/ CropRejected
    \/ SectionCropped
    \/ SectionExtracted
    \/ SectionCropsTableBox
    \/ WindowPageDone

SpecWindow == InitWindow /\ [][NextWindow]_vars

(***************************************************************************)
(* Claims about _parse_amount, under SpecAmount.                           *)
(***************************************************************************)
\* a cell holds a numeric token -?\d+(\.\d+)? exactly when it holds a digit
HasNumericToken(s) == \E i \in 1..Len(s) : IsDigit(s[i])

\* the decimal number whole.frac, e.g. Decimal(<<"1","2">>, <<"5">>) is 12.5
Decimal(whole, frac) == Float(FALSE, whole, frac)

\* C7: the documented amount formats parse to the documented values:
\* "$1,234.56" to 1234.56, "(123.45)" to -123.45, "123.45 CR" to -123.45,
\* "123.45 DR" to 123.45; a cell without a numeric token parses to None.
C7_AmountFormats ==
    amt # Pending =>
        /\ cell = <<"$","1",",","2","3","4",".","5","6">>
              => amt = Decimal(<<"1","2","3","4">>, <<"5","6">>)
        /\ cell = <<"(","1","2","3",".","4","5",")">>
              => amt = Float(TRUE, <<"1","2","3">>, <<"4","5">>)
        /\ cell = <<"1","2","3",".","4","5"," ","C","R">>
              => amt = Float(TRUE, <<"1","2","3">>, <<"4","5">>)
        /\ cell = <<"1","2","3",".","4","5"," ","D","R">>
              => amt = Decimal(<<"1","2","3">>, <<"4","5">>)
        /\ ~HasNumericToken(cell) => amt = None

C7_Witness ==
    /\ cell = <<"(","1","2","3",".","4","5",")">>
    /\ amt = [t |-> "num", neg |-> TRUE, whole |-> 123, frac |-> <<"4","5">>]

TrailingSuffix(s, suffix) == EndsWith(Strip(Upper(s)), suffix)

\* C8: with a numeric token in the cell, a trailing CR makes the amount
\* negative and a trailing DR makes it positive whatever sign the token
\* carries, and CR elsewhere in the cell does not make the amount a credit.
C8_SuffixForcesSign ==
    (amt # Pending /\ HasNumericToken(cell)) =>
        /\ TrailingSuffix(cell, <<"C","R">>) => (amt # None /\ ~IsPositive(amt))
        /\ TrailingSuffix(cell, <<"D","R">>) => (amt # None /\ ~IsNegative(amt))
        /\ ( /\ ~TrailingSuffix(cell, <<"C","R">>)
             /\ ~IsSubstr(<<"-">>, cell) /\ ~IsSubstr(<<"(">>, cell) )
              => ~IsNegative(amt)

(***************************************************************************)
(* Claims about TransactionClassifier, under SpecClassify.                 *)
(***************************************************************************)
ClassifyDone == cls_pc \in {"returned", "raised"}

\* the rule's condition tree evaluates true on the transaction
TreeTrue(rule) == _evaluate_rule(rule, transaction) = "true"

ResultOf(rule) ==
    [category |-> rule.category_name,
     transaction_type |-> rule.transaction_type,
     dual_entry |-> Get(rule, "dual_entry")]

\* every operator of the rule is one of OPERATORS
ConditionsOf(rule) ==
    UNION { IF IsGroup(rule.rules[i])
            THEN {rule.rules[i].rules[k] : k \in 1..Len(rule.rules[i].rules)}
            ELSE {rule.rules[i]} : i \in 1..Len(rule.rules) }
AllSupported == \A i \in 1..Len(rules) : \A c \in ConditionsOf(rules[i]) : c.operator \in OPERATORS

\* C1: classify returns the category, type and dual_entry of the first rule
\* in list order whose condition tree is true on the transaction, whatever
\* the rules after it.
C1_FirstMatchWins ==
    ClassifyDone =>
        \A i \in 1..Len(rules) :
            (TreeTrue(rules[i]) /\ \A j \in 1..(i - 1) : ~TreeTrue(rules[j]))
                => (cls_pc = "returned" /\ result = ResultOf(rules[i]))

\* what holds of the code: C1 on rule lists without an unsupported operator
FirstMatchWinsWhenSupported == AllSupported => C1_FirstMatchWins

\* a MUST_MATCH_ALL rule made of one MUST_MATCH_ANY group and one condition
GroupAndSibling(rule) ==
    /\ rule.logic = "MUST_MATCH_ALL"
    /\ Len(rule.rules) = 2
    /\ IsGroup(rule.rules[1])
    /\ rule.rules[1].group_logic = "MUST_MATCH_ANY"
    /\ ~IsGroup(rule.rules[2])

\* the single condition is true on the transaction
ConditionTrue(cond) ==
    /\ cond.operator \in OPERATORS
    /\ OperatorFunc(cond.operator, Get(transaction, cond.field), cond.value) = "true"

\* C2: with such a rule first in the list, the transaction is classified by
\* it if and only if some condition of the group is true and the sibling
\* condition is true.
C2_GroupAndSibling ==
    (ClassifyDone /\ rules # <<>> /\ GroupAndSibling(rules[1])) =>
        ( (cls_pc = "returned" /\ result.category = rules[1].category_name)
          <=> ( /\ \E k \in 1..Len(rules[1].rules[1].rules) :
                       ConditionTrue(rules[1].rules[1].rules[k])
                /\ ConditionTrue(rules[1].rules[2]) ) )

\* what holds of the code: C2 on rule lists without an unsupported operator
GroupAndSiblingWhenSupported == AllSupported => C2_GroupAndSibling

\* a debit amount is present on the transaction
DebitPresent ==
    /\ "Debit" \in DOMAIN transaction
    /\ transaction.Debit.t = "num"
    /\ ~IsZero(transaction.Debit)

\* C3: when no rule's condition tree is true, classify returns Unclassified
\* with no dual_entry, MANUAL_CR when a debit amount is present and MANUAL_DR
\* otherwise.
C3_UnclassifiedFallback ==
    (ClassifyDone /\ \A i \in 1..Len(rules) : ~TreeTrue(rules[i])) =>
        /\ cls_pc = "returned"
        /\ result = [category |-> "Unclassified",
                     transaction_type |-> IF DebitPresent THEN "MANUAL_CR" ELSE "MANUAL_DR",
                     dual_entry |-> None]

\* what holds of the code: C3 on rule lists without an unsupported operator
FallbackWhenSupported == AllSupported => C3_UnclassifiedFallback

\* C4: a condition with an unsupported operator evaluates false and never
\* raises: classify ends in a matching rule or in the Unclassified fallback.
C4_UnsupportedOperatorIsFalse ==
    /\ cls_pc # "raised"
    /\ cls_pc = "returned" =>
          \/ result.category = "Unclassified"
          \/ \E i \in 1..Len(rules) : TreeTrue(rules[i]) /\ result = ResultOf(rules[i])

(***************************************************************************)
(* Claims about parse_rows, under SpecRows.                                *)
(***************************************************************************)
\* the loop of parse_rows is at a row
InLoop == rows_pc = "loop" /\ row_idx <= Len(clean_rows)

\* the row is skipped: nothing is emitted, nothing emitted changes, and the
\* loop goes on with the next row
Dropped ==
    /\ out' = out
    /\ row_idx' = row_idx + 1
    /\ rows_pc' = "loop"

\* a noise row: its joined cells hold one of the fixed markers (or nothing),
\* or it is a single non-empty cell of length <= 2
IsNoiseRow(row) == NoiseJoined(Upper(Strip(JoinCells(row))), row)

\* a continuation row: description present, no parseable amount, no date-like
\* token in either date cell, not a noise row; the cells are those of columns
\* given by number
IsContinuationRow(row, cols) ==
    /\ ~IsNoiseRow(row)
    /\ \A key \in DOMAIN cols : cols[key].t = "int"
    /\ Strip(_cell(row, Get(cols, "description"))) # <<>>
    /\ _parse_amount(_cell(row, Get(cols, "amount"))) = None
    /\ ~_looks_like_date(_cell(row, Get(cols, "transaction_date")))
    /\ ~_looks_like_date(_cell(row, Get(cols, "posting_date")))

ContinuationRows ==
    [row \in CleanPool, config \in Configs |-> IsContinuationRow(row, Columns(config))]

\* the description of the most recently emitted transaction gets the text,
\* space-joined; no other transaction and no other field changes
AppendedToMostRecent(text) ==
    out' = [out EXCEPT ![Len(out)].description = Strip(@ \o <<" ">> \o Strip(text))]

\* C5: a continuation row is never emitted as a transaction; its description
\* is appended, space-joined, to the description of the most recently emitted
\* transaction of the call and to no earlier one, and the row is dropped
\* without effect when no transaction has been emitted yet.
C5_ContinuationRows ==
    [][(InLoop /\ ContinuationRows[clean_rows[row_idx], section_config]) =>
          /\ Len(out') = Len(out)
          /\ row_idx' = row_idx + 1
          /\ IF out = <<>> THEN out' = out
             ELSE AppendedToMostRecent(_cell(clean_rows[row_idx],
                                             Get(Columns(section_config), "description")))]_vars

\* two transactions were emitted and a continuation row followed: its text
\* is in the second description, the first is as it was
C5_Witness ==
    /\ rows_pc = "returned"
    /\ table_rows = <<RowDec27, RowJan03, RowContinuation>>
    /\ Len(out) = 2
    /\ out[1].description = <<"T","D"," ","B","A","N","K","L","I","N","E">>
    /\ out[2].description = <<"H","O","M","E"," ","D","E","P","O","T"," ","T","O","R","O","N","T","O"," ","O","N">>

\* C6: parse_rows accepts a statement_period and resolves year-less dates
\* against it: for the period 2023-12-26..2024-01-25 the row dated "Dec 27"
\* yields 2023-12-27 and the row dated "Jan 03" yields 2024-01-03.
C6_StatementPeriod ==
    ( /\ rows_pc \in {"returned", "raised"}
      /\ "statement_period" \in DOMAIN kwargs
      /\ table_rows = <<RowDec27, RowJan03>> )
    => ( /\ rows_pc = "returned"
         /\ Len(out) = 2
         /\ out[1].transaction_date = Str(<<"2","0","2","3","-","1","2","-","2","7">>)
         /\ out[2].transaction_date = Str(<<"2","0","2","4","-","0","1","-","0","3">>) )

\* YYYY-MM-DD
IsIsoDate(v) ==
    /\ v.t = "str"
    /\ Len(v.s) = 10
    /\ \A k \in {1, 2, 3, 4, 6, 7, 9, 10} : IsDigit(v.s[k])
    /\ v.s[5] = "-" /\ v.s[8] = "-"
    /\ DigitsValue(Slice(v.s, 6, 7)) \in 1..12
    /\ DigitsValue(Slice(v.s, 9, 10)) \in 1..31

HasTxDateColumn(config) == Get(Columns(config), "transaction_date") # None

\* a data row (not noise, not a continuation, with a description and an
\* amount) whose transaction date cannot be parsed
IsUndatedDataRow(row, cols, year_int) ==
    /\ ~IsNoiseRow(row)
    /\ ~IsContinuationRow(row, cols)
    /\ Strip(_cell(row, Get(cols, "description"))) # <<>>
    /\ _parse_amount(_cell(row, Get(cols, "amount"))) # None
    /\ _parse_date(_cell(row, Get(cols, "transaction_date")), year_int) = None

UndatedDataRows ==
    [row \in CleanPool, config \in Configs, year \in TaxYears |->
        HasTxDateColumn(config) /\ IsUndatedDataRow(row, Columns(config), DigitsValue(year))]

\* C9: with a transaction_date column configured, a data row whose
\* transaction date cannot be parsed is dropped and the loop goes on with the
\* next row; every transaction emitted for such a section has a non-null ISO
\* transaction_date, a non-empty description and a numeric amount.
C9_UndatedRowsDropped ==
    /\ [][(InLoop /\ UndatedDataRows[clean_rows[row_idx], section_config, tax_year])
            => Dropped]_vars
    /\ [](HasTxDateColumn(section_config) =>
            \A k \in 1..Len(out) :
                /\ IsIsoDate(out[k].transaction_date)
                /\ out[k].description # <<>>
                /\ out[k].amount.t = "num")

\* "FEB. 29" does not parse in 2023: the row is dropped, and the row after
\* it is emitted with its date
C9_Witness ==
    /\ rows_pc = "returned"
    /\ table_rows = <<RowFeb29, RowDec27>>
    /\ tax_year = <<"2","0","2","3">>
    /\ HasTxDateColumn(section_config)
    /\ Len(out) = 1
    /\ out[1].transaction_date = Str(<<"2","0","2","3","-","1","2","-","2","7">>)

NoiseRows == [row \in CleanPool |-> IsNoiseRow(row)]

\* C10: a noise row never becomes a transaction and never changes the
\* description of an emitted transaction, wherever it is in the sequence of
\* rows and even when it also carries a date and an amount.
C10_NoiseRowsDropped ==
    [][(InLoop /\ NoiseRows[clean_rows[row_idx]]) => Dropped]_vars

\* "Total Fees" with a date and an amount came after a transaction and was
\* skipped
C10_Witness ==
    /\ rows_pc = "loop"
    /\ row_idx = 3
    /\ clean_rows[2] = CleanedRow[RowTotalFees]
    /\ _parse_amount(clean_rows[2][4]) # None
    /\ _looks_like_date(clean_rows[2][1])
    /\ Len(out) = 1
    /\ out[1].description = <<"T","D"," ","B","A","N","K","L","I","N","E">>

(***************************************************************************)
(* Claims about validate_table_presence, under SpecPresence.               *)
(***************************************************************************)
PresenceDone == presence # Pending
Found == found_count(header_labels, found_labels)
Configured == Len(header_labels)
\* the footer rule line lies inside the region, or a line or a rectangle
\* wider than the one-unit noise limit is found in it
StructuralEvidence ==
    \/ /\ footer_bbox # None
       /\ footer_bbox.line_bbox # None
       /\ footer_bbox.line_bbox.top \in strip_bbox[2]..strip_bbox[4]
    \/ crop_lines # <<>>
    \/ \E i \in 1..Len(crop_rects) : crop_rects[i].x1 - crop_rects[i].x0 > 1
\* 75% of the labels when more than two are configured, 50% otherwise
SemanticCheck ==
    \/ Configured = 0
    \/ Configured > 2 /\ 4 * Found >= 3 * Configured
    \/ Configured \in 1..2 /\ 2 * Found >= Configured

\* C12: validate_table_presence accepts a region exactly when structural
\* evidence is present (footer rule line inside the region, or a horizontal
\* line or rectangle found) and the semantic check passes: no labels, or
\* found/len >= 0.75 with more than two labels and >= 0.5 otherwise; so 1 of
\* 3 labels fails and 2 of 2 passes.
C12_TablePresence ==
    PresenceDone =>
        /\ presence.v = (StructuralEvidence /\ SemanticCheck)
        /\ (Configured = 3 /\ Found = 1 => presence.v = FALSE)
        /\ (Configured = 2 /\ Found = 2 => presence.v = StructuralEvidence)
\* two of three labels are found under a rule line: below 75%, rejected
C12_Witness ==
    /\ PresenceDone
    /\ Configured = 3 /\ Found = 2
    /\ StructuralEvidence
    /\ presence.v = FALSE

(***************************************************************************)
(* Claims about validate_extracted_table, under SpecExtracted.             *)
(***************************************************************************)
ExtractedDone == extracted_ok # Pending
ExpectedColumnCount == Cardinality(DOMAIN extracted_section.columns)
\* the first min(len(rows), 20) rows
Sampled == 1..(IF Len(extracted_rows) > 20 THEN 20 ELSE Len(extracted_rows))
CellIsNonEmpty(c) == c # None /\ \E i \in 1..Len(c.s) : c.s[i] \notin Whitespace
NonEmptyCells(row) ==
    IF row = None THEN 0
    ELSE Cardinality({k \in 1..Len(row.items) : CellIsNonEmpty(row.items[k])})
GoodSampled == {i \in Sampled : NonEmptyCells(extracted_rows[i]) >= ExpectedColumnCount - 1}
RowCheckAccepts ==
    /\ GoodSampled # {}
    /\ Cardinality(Sampled) >= 4 => 5 * Cardinality(GoodSampled) >= 2 * Cardinality(Sampled)

\* C13: for a section with columns, the row check of validate_extracted_table
\* samples the first min(len(rows), 20) rows, counts a row as good when it has
\* at least expected_column_count - 1 non-empty cells, and accepts exactly when
\* a sampled row is good and, for a sample of 4 rows or more, at least 40% of
\* the sampled rows are good; with type_check "both" a table the row check
\* rejects is rejected.
C13_RowCheck ==
    ExtractedDone /\ ExpectedColumnCount > 0 =>
        /\ type_check = "rows_only" => extracted_ok.v = RowCheckAccepts
        /\ type_check = "both" /\ ~RowCheckAccepts => extracted_ok.v = FALSE
\* 21 rows: 8 of the first 20 are good (one cell missing each), the 21st is
\* not, so the sample of 20 decides and the table is accepted
C13_Witness ==
    /\ ExtractedDone
    /\ type_check = "rows_only"
    /\ ExpectedColumnCount = 4
    /\ Len(extracted_rows) = 21
    /\ Cardinality(GoodSampled) = 8
    /\ extracted_rows[1] = GridOffByOne
    /\ NonEmptyCells(extracted_rows[21]) = 2
    /\ extracted_ok.v = TRUE

(***************************************************************************)
(* Claims about the header row in parse_rows, under SpecRows.              *)
(***************************************************************************)
\* the amount cell of the row holds no numeric token, as a header label does
HasNoAmountToken(row, config) == ~HasNumericToken(_cell(row, Get(Columns(config), "amount")))
HeaderLikeRows == [row \in CleanPool, config \in Configs |-> HasNoAmountToken(row, config)]
TheHeaderRow == CleanedRow[RowHeader]
\* clean_rows is what is left of the pre-cleaned rows without d leading rows
LeadingRowsDropped(d) ==
    /\ d <= Len(PreClean(table_rows))
    /\ clean_rows = SubSeq(PreClean(table_rows), d + 1, Len(PreClean(table_rows)))

\* C17: parse_rows never emits the header row as a transaction: a row
\* whose amount cell holds no numeric token (the header labels are such a row)
\* adds nothing to the output, with rows_only=True and with rows_only=False;
\* with rows_only=False only leading rows are dropped as headers, at most
\* max_header_rows of them.
C17_HeaderRowNeverEmitted ==
    /\ HeaderLikeRows[TheHeaderRow, SectionWithDates]
    /\ [][(InLoop /\ HeaderLikeRows[clean_rows[row_idx], section_config])
            => Len(out') = Len(out)]_vars
    /\ [](rows_pc = "loop" /\ ~RowsOnly(kwargs) =>
            \E d \in 0..MaxHeaderRows(kwargs) : LeadingRowsDropped(d))
\* one header row is dropped at the top, the header row repeated after the
\* first data row has been read and only the data row is in the output
C17_Witness ==
    /\ rows_pc = "loop"
    /\ ~RowsOnly(kwargs) /\ MaxHeaderRows(kwargs) = 1
    /\ table_rows = <<RowHeader, RowDec27, RowHeader>>
    /\ clean_rows = <<CleanedRow[RowDec27], TheHeaderRow>>
    /\ row_idx = 3
    /\ Len(out) = 1


\* ---------------------------------------------------------------------------
\* Claims about parse_pdf, under SpecPdf.
\* ---------------------------------------------------------------------------

InSections == pdf_pc \in {"section", "parsing"}

\* the headers of the current page stand in the list from top to bottom
HeadersTopToBottom ==
    \A i, j \in 1..Len(page_section_positions) :
        i < j => page_section_positions[i].top <= page_section_positions[j].top

\* each section of the profile whose header is on the page is in the list once
HeadersOncePerSection ==
    /\ \A i, j \in 1..Len(page_section_positions) :
           i # j => page_section_positions[i].section # page_section_positions[j].section
    /\ {page_section_positions[i].section : i \in 1..Len(page_section_positions)}
         = {s \in {profile.sections.items[k] : k \in 1..Len(profile.sections.items)} :
               \E r \in pdf.pages[page_num + 1].regions : r.match_text = s.match_text}

\* pages are taken by ascending index, one after the other
PagesInOrder ==
    \/ page_num' = page_num
    \/ /\ page_num' = page_num + 1
       /\ pdf_pc' = "page"
       /\ InSections => sec_i > Len(page_section_positions)

\* on a page the list of headers is walked from its first entry to its last
SectionsInOrder ==
    /\ InSections /\ pdf_pc' \in {"section", "parsing"} =>
           /\ page_section_positions' = page_section_positions
           /\ sec_i' \in {sec_i, sec_i + 1}
    /\ pdf_pc # "section" /\ pdf_pc' = "section" /\ ~InSections => sec_i' = 1
    /\ pdf_pc = "section" /\ pdf_pc' = "parsing" =>
           /\ sec_i' = sec_i
           /\ table_rows' = page_section_positions[sec_i].region.table_rows
           /\ section_config' = page_section_positions[sec_i].section

\* the list grows only by the transactions of the table just parsed, in their
\* order, at most one for each of its rows, and the walk moves on
RowsAppendedOnce ==
    transactions' # transactions =>
        /\ pdf_pc = "parsing"
        /\ transactions' = transactions \o out
        /\ Len(out) <= Len(table_rows)
        /\ sec_i' = sec_i + 1

ProfileMissing == profile = ProfileNotFound
SectionsInError == IF LoadRaises(profile) THEN FALSE ELSE ProfileRejected(profile)
PdfStarted == pdf_pc # "start"
LoggedAndEmpty ==
    /\ pdf_pc = "returned"
    /\ transactions = <<>>
    /\ notified = <<"error">>

\* missing, empty, non-list sections and malformed entries are logged and
\* give an empty list
SectionsInErrorAreLogged == [](SectionsInError /\ PdfStarted => LoggedAndEmpty)

\* C15: a configuration error of the bank profile (the profile is missing, or
\* its sections are missing, empty, not a list, or hold a malformed entry) makes
\* parse_pdf log the error and return no transactions, without raising.
C15_ProfileErrorIsLogged ==
    (ProfileMissing \/ SectionsInError) /\ PdfStarted => LoggedAndEmpty

ProfileIsAccepted == profile \in AcceptedProfiles
OpenFailed == pdf_pc = "open" /\ pdf = PdfUnreadable
SectionFailed ==
    /\ pdf_pc = "section"
    /\ sec_i <= Len(page_section_positions)
    /\ page_section_positions[sec_i].region.kind = "error"
ParseRowsFailed == pdf_pc = "parsing" /\ rows_pc = "raised"
FailureIsLogged ==
    OpenFailed \/ SectionFailed =>
        /\ pdf_pc' = "returned"
        /\ transactions' = transactions
        /\ notified' = notified \o <<"error", "info">>
ParseRowsFailureSkipsSection ==
    ParseRowsFailed =>
        /\ pdf_pc' = "section"
        /\ sec_i' = sec_i + 1
        /\ transactions' = transactions
        /\ notified' = Append(notified, "error")
        /\ page_num' = page_num
        /\ page_section_positions' = page_section_positions

RunIsOver == run_pc \in {"pipeline", "exported", "exited", "raised"}
FilesIngested == {ingested[k] : k \in 1..Len(ingested)}

\* a failure that parse_pdf contains does not stop the run
ContainedFailureGoesOn ==
    [][run_pc = "loop" /\ file_i <= Len(file_list) /\ file_list[file_i] = "contained" =>
           run_pc' = "loop" /\ file_i' = file_i + 1]_vars

\* C14: a failure while ingesting one file is caught and logged and the run
\* goes on with the remaining files: when the run is over no exception has left
\* it and every file whose ingestion does not fail has been ingested.
C14_FailureDoesNotAbort ==
    RunIsOver =>
        /\ run_pc \in {"pipeline", "exported"}
        /\ \A i \in 1..Len(file_list) : file_list[i] # "raises" => i \in FilesIngested


\* ---------------------------------------------------------------------------
\* Claims about run_pipeline and map_transaction_to_row, under SpecPipeline.
\* ---------------------------------------------------------------------------

\* the row of the transaction just classified has been written
RowWritten == pipe_pc = "loop" /\ cls_pc = "returned" /\ pipe_idx > start_row
WrittenRow == pipe_idx - 1
WrittenCells == ws[WrittenRow].cells
\* the k-th transaction stands on row start_row + k - 1
RowOfKth ==
    /\ DOMAIN ws = start_row..WrittenRow
    /\ \E k \in 1..Len(pipe_transactions) :
          /\ WrittenRow = start_row + k - 1
          /\ transaction = pipe_transactions[k]
ExpenseWithDualEntry == result.transaction_type = "EXPENSE" /\ result.dual_entry # None
DebitTimesPercentage ==
    Cents((Hundredths(transaction.Debit) * Hundredths(result.dual_entry.APPLY_PERCENTAGE)) \div 100)

\* the DR column and the row are as the claim says
DualEntryDebitAndRow ==
    RowWritten /\ ExpenseWithDualEntry =>
        /\ WrittenCells[result.dual_entry.DR_COLUMN.letter] = DebitTimesPercentage
        /\ RowOfKth
\* the CR column holds the same amount, not negated
DualEntryCreditAsWritten ==
    RowWritten /\ ExpenseWithDualEntry =>
        WrittenCells[result.dual_entry.CR_COLUMN.letter] = DebitTimesPercentage

\* C18: for a transaction matched by an EXPENSE rule with a dual_entry,
\* run_pipeline writes the debit amount times APPLY_PERCENTAGE into the DR
\* column of the transaction's row and the negated value into the CR column,
\* the k-th transaction standing on row start_row + k - 1.
C18_DualEntryRow ==
    RowWritten /\ ExpenseWithDualEntry =>
        /\ WrittenCells[result.dual_entry.DR_COLUMN.letter] = DebitTimesPercentage
        /\ WrittenCells[result.dual_entry.CR_COLUMN.letter]
             = Cents(0 - Hundredths(DebitTimesPercentage))
        /\ RowOfKth

Classified == pipe_pc \in {"classifying", "loop", "raised"} /\ cls_pc = "returned"
IsUnclassified == result.category = "Unclassified"
NotesNameTheTransaction ==
    /\ WrittenCells["AB"].t = "str"
    /\ IsSubstr(<<"u","n","c","l","a","s","s","i","f","i","e","d"," ","t","r","a","n","s","a","c","t","i","o","n">>, WrittenCells["AB"].s)
    /\ IsSubstr(transaction.Description.s, WrittenCells["AB"].s)
AmountBooked ==
    /\ result.transaction_type = "MANUAL_CR" =>
          /\ WrittenCells["C"] = ToFloat(transaction.Debit)
          /\ ColumnName("C") = "Withdrawals CR"
    /\ result.transaction_type = "MANUAL_DR" =>
          /\ WrittenCells["D"] = ToFloat(transaction.Credit)
          /\ ColumnName("D") = "Deposits DR"

CanonicalKeys == {"Date", "Description", "Debit", "Credit", "Balance", "source"}
IsFloat(v) == v.t = "num"
NonNegativeFloat(v) == IsFloat(v) /\ ~v.neg

\* what load_csv returns: four keys, Debit and Credit floats
ShapeAsReturned ==
    \A k \in 1..Len(csv_transactions) :
        /\ DOMAIN csv_transactions[k] = {"Date", "Description", "Debit", "Credit"}
        /\ IsFloat(csv_transactions[k].Debit)
        /\ IsFloat(csv_transactions[k].Credit)

\* with a single Amount column a negative amount is the Debit, without its
\* sign, and any other amount is the Credit
SingleAmountColumn ==
    /\ HasField(fieldnames, <<"A","m","o","u","n","t">>)
    /\ ~HasField(fieldnames, <<"D","e","b","i","t">>)
    /\ ~HasField(fieldnames, <<"C","r","e","d","i","t">>)
AmountColumnSplit ==
    [][csv_transactions' # csv_transactions /\ SingleAmountColumn =>
          LET tx == csv_transactions'[Len(csv_transactions')]
              amount == parse_amount(Field(fieldnames, csv_lines[csv_i], <<"A","m","o","u","n","t">>))
          IN  IF amount.neg THEN tx.Debit = [amount EXCEPT !.neg = FALSE] /\ tx.Credit = Cents(0)
              ELSE tx.Credit = amount /\ tx.Debit = Cents(0)]_vars

\* C20: every transaction returned by load_csv has exactly the keys Date,
\* Description, Debit, Credit, Balance and source, with source 'bank_account',
\* Debit and Credit floats that are never negative, and Balance a float or None.
C20_CanonicalShape ==
    \A k \in 1..Len(csv_transactions) :
        /\ DOMAIN csv_transactions[k] = CanonicalKeys
        /\ csv_transactions[k].source = Str(<<"b","a","n","k","_","a","c","c","o","u","n","t">>)
        /\ NonNegativeFloat(csv_transactions[k].Debit)
        /\ NonNegativeFloat(csv_transactions[k].Credit)
        /\ csv_transactions[k].Balance = None \/ IsFloat(csv_transactions[k].Balance)

\* a Debit column with a negative amount gives a negative Debit
NegativeDebitReturned ==
    \E k \in 1..Len(csv_transactions) : csv_transactions[k].Debit.neg

(***************************************************************************)
(* Claims about evaluate_rule, under SpecEvaluate.                         *)
(***************************************************************************)
Reported == ev_report # Pending /\ ev_report # Raised

\* the transaction at idx matches the rule
Matching(idx) ==
    _evaluate_rule_items(RuleConditions(ev_rule), ev_transactions[idx + 1],
                         RuleLogic(ev_rule)) = "true"

AllIndexes == 0..(Len(ev_transactions) - 1)

\* the transactions at the indexes of S, in input order
InInputOrder(S) == TakeAt(ev_transactions, Ascending(S))

Elements(seq) == {seq[k] : k \in 1..Len(seq)}

IsSubListOf(a, b) == \E S \in SUBSET (1..Len(b)) : a = [k \in 1..Len(Ascending(S)) |-> b[Ascending(S)[k]]]

ReportAsClaimed ==
    /\ ev_report.matches = InInputOrder({idx \in AllIndexes : Matching(idx)})
    /\ ev_report.false_positives =
            InInputOrder({idx \in AllIndexes : Matching(idx) /\ idx \notin ev_expected.s})
    /\ ev_report.false_negatives =
            InInputOrder({idx \in AllIndexes : idx \in ev_expected.s /\ ~Matching(idx)})
    /\ Elements(ev_report.false_positives) \cap Elements(ev_report.false_negatives) = {}
    /\ IsSubListOf(ev_report.false_positives, ev_report.matches)

\* a rule with an empty condition list matches no transaction
EmptyConditionsMatchNothing ==
    (Reported /\ RuleConditions(ev_rule) = <<>>) => ev_report.matches = <<>>

\* with a list of transactions and at least one expected index, the report is
\* the one described
ReportOfExpectedIndexes ==
    (Reported /\ ev_expected # None /\ ev_expected.s # {} /\ ~ev_one_shot) => ReportAsClaimed

\* C21: whenever expected_matches is supplied to evaluate_rule, matches are the
\* matching transactions in input order, false_positives are exactly the
\* matched transactions whose index is not expected, false_negatives exactly
\* the transactions at expected indexes that did not match, the two lists are
\* disjoint and false_positives is a sub-list of matches; a rule with an empty
\* condition list matches no transaction.
C21_ReportAsClaimed ==
    /\ (Reported /\ ev_expected # None) => ReportAsClaimed
    /\ EmptyConditionsMatchNothing

\* expected_matches=[] is supplied and a transaction matches: no false positive
\* is reported
NothingExpectedAndMatched ==
    /\ Reported /\ ev_expected = Indices({}) /\ ~ev_one_shot
    /\ ev_report.matches # <<>> /\ ev_report.false_positives = <<>>

(***************************************************************************)
(* Claims about RuleWizard, under SpecWizard.                              *)
(***************************************************************************)
FinalizeCalled == finalize_call # None
FinalizeReturned == "rule" \in DOMAIN finalize_result

\* no call of set_intent has been made on the wizard
NoIntent == _category_name = None /\ _transaction_type = None

DryRunSupplied == finalize_call.dry_run_transactions # None
NotValidated == ~finalize_call.validate /\ finalize_result.validation = None
ValidatedAsValid ==
    /\ finalize_call.validate
    /\ finalize_result.validation # None
    /\ finalize_result.validation.valid
FailedValidation ==
    /\ finalize_call.validate
    /\ finalize_result.validation # None
    /\ ~finalize_result.validation.valid

\* C22: for every sequence of RuleWizard calls, finalize_rule raises ValueError
\* while no intent has been set, and its result holds a match_report only when
\* dry-run transactions were supplied and the rule was not validated or was
\* validated as valid; a rule that failed validation has match_report None.
C22_FinalizeGuards ==
    /\ (FinalizeCalled /\ NoIntent) => finalize_result = ValueError
    /\ (FinalizeReturned /\ finalize_result.match_report # None) =>
            (DryRunSupplied /\ (NotValidated \/ ValidatedAsValid))
    /\ (FinalizeReturned /\ FailedValidation) => finalize_result.match_report = None

\* dry-run transactions are supplied for a rule with conditions that fails
\* validation: the call returns without a report
C22_Witness ==
    /\ FinalizeReturned /\ DryRunSupplied /\ FailedValidation
    /\ _rules # <<>>
    /\ finalize_result.match_report = None

(***************************************************************************)
(* Claims about RuleLoader, under SpecLoader.                              *)
(***************************************************************************)
GetRulesCalled == get_rules_outcome # Pending
LastLoadCompleted == load_outcome # Pending /\ load_outcome.t = "returned"

\* get_rules gives the list that the most recent load returned when that load
\* completed; before any load and after a load that raised it raises RuntimeError
GetRulesFollowsLoad ==
    GetRulesCalled =>
        IF LastLoadCompleted THEN get_rules_outcome = Returned(load_outcome.value)
        ELSE get_rules_outcome = RuntimeError

\* no rule is held by a loader whose most recent load raised
RejectedRulesOutOfReach ==
    (load_outcome # Pending /\ load_outcome.t = "raised") => loader_rules = <<>>

\* C30: for every sequence of RuleLoader calls, get_rules returns the rule list
\* exactly when the most recent load completed without error (also for a valid
\* document with an empty _rules list); before any load and after a load that
\* raised, get_rules raises RuntimeError and no rule of the rejected document
\* is accessible through the loader.
C30_GetRulesAfterLoad == GetRulesFollowsLoad /\ RejectedRulesOutOfReach

\* before any load, get_rules raises RuntimeError
GetRulesBeforeLoad == (GetRulesCalled /\ load_outcome = Pending) => get_rules_outcome = RuntimeError

\* after a load that returned a list with rules, get_rules returns that list
GetRulesAfterLoadWithRules ==
    (GetRulesCalled /\ LastLoadCompleted /\ load_outcome.value # <<>>) =>
        get_rules_outcome = Returned(load_outcome.value)

\* the load of a document with a rule that _validate_rule rejects raised, and
\* get_rules returns the rules of that document
RejectedRulesReturned ==
    /\ load_outcome = ValueError
    /\ GetRulesCalled /\ get_rules_outcome.t = "returned"
    /\ LoadRaisesValueError(get_rules_outcome.value)

\* the load of a valid document with an empty _rules list completed, and
\* get_rules raises
EmptyListRaises ==
    /\ LastLoadCompleted /\ load_outcome.value = <<>>
    /\ get_rules_outcome = RuntimeError

(***************************************************************************)
(* Claims about run_wizard, under SpecRulegen.                             *)
(***************************************************************************)
RuleSaved == gen_pc = "saved"

\* RuleLoader(path).load() returns for the document
LoadAccepts(document) ==
    /\ PathExists(document)
    /\ ~MissingRulesArray(document.d)
    /\ ~LoadRaisesValueError(document.d._rules.items)

\* C29: every rule that run_wizard appends to the rules document is accepted
\* by RuleLoader.load, whatever the answers given (transaction type, conditions
\* or groups added, dual-entry configured or declined).
C29_SavedRuleLoads ==
    RuleSaved => (~RuleInvalid(wizard_rule) /\ LoadAccepts(rules_document))

\* a saved rule of type IGNORE_TRANSACTION, and a saved rule for which the
\* dual entry was configured, are accepted
SavedRuleWithDualEntryLoads ==
    (RuleSaved /\ (wizard_rule.transaction_type = "IGNORE_TRANSACTION"
                    \/ "dual_entry" \in DOMAIN wizard_rule))
        => (~RuleInvalid(wizard_rule) /\ LoadAccepts(rules_document))

\* the dual entry was declined for a rule of type EXPENSE: the rule is saved
\* and RuleLoader rejects the document
SavedWithoutDualEntry ==
    /\ RuleSaved
    /\ wizard_rule.transaction_type = "EXPENSE"
    /\ "dual_entry" \notin DOMAIN wizard_rule
    /\ ~LoadAccepts(rules_document)

(***************************************************************************)
(* Claims about the two evaluators, under SpecAgree.                       *)
(***************************************************************************)
BothEvaluated == dry_run_verdict # Pending /\ classifier_verdict # Pending

\* C27: for every rule whose conditions use only CONTAINS, STARTS_WITH, EQUALS,
\* BETWEEN and LESS_THAN_OR_EQUAL_TO and for every transaction, the dry-run
\* evaluator and the production classifier agree on whether the transaction
\* matches the rule, including rules with an empty condition list, groups with
\* an empty list, and transactions whose field is missing or None.
C27_EvaluatorsAgree == BothEvaluated => dry_run_verdict = classifier_verdict

\* the conditions of a rule, those of its groups included
RECURSIVE Flattened(_)
Flattened(items) ==
    IF items = <<>> THEN <<>>
    ELSE (IF IsGroup(items[1]) THEN items[1].rules ELSE <<items[1]>>) \o Flattened(Tail(items))

NoEmptyList(rule) ==
    /\ rule.rules # <<>>
    /\ \A i \in 1..Len(rule.rules) : IsGroup(rule.rules[i]) => rule.rules[i].rules # <<>>

\* every field that a string operator looks at holds a string
StringsWhereExpected(rule, tx) ==
    \A i \in 1..Len(Flattened(rule.rules)) :
        Flattened(rule.rules)[i].operator \in {"CONTAINS", "STARTS_WITH", "EQUALS"}
            => Get(tx, Flattened(rule.rules)[i].field).t = "str"

\* without empty lists, and with strings in the fields that the string
\* operators look at, the two evaluators agree
AgreeOnFilledRules ==
    (BothEvaluated /\ NoEmptyList(dry_rule) /\ StringsWhereExpected(dry_rule, dry_tx))
        => dry_run_verdict = classifier_verdict

\* MUST_MATCH_ALL over no condition: the classifier matches, the dry run does not
EmptyAllDisagrees ==
    /\ dry_rule = [logic |-> "MUST_MATCH_ALL", rules |-> <<>>]
    /\ dry_run_verdict = Verdict("false")
    /\ classifier_verdict = Verdict("true")


(***************************************************************************)
(* Claims about the rows parse_pdf hands to parse_rows                     *)
(***************************************************************************)
\* the number of rows of clean that the loop of parse_rows makes a
\* transaction of
RECURSIVE DataRows(_, _, _)
DataRows(clean, config, year) ==
    IF clean = <<>> THEN 0
    ELSE (IF Outcomes[Head(clean), config, year] = "transaction" THEN 1 ELSE 0)
         + DataRows(Tail(clean), config, year)

\* parse_rows has returned for a table extracted from the rows box
ParsedFromRowsBox ==
    pdf_pc = "parsing" /\ rows_pc = "returned" /\ rows_bbox(TheItem)

\* C26: when parse_pdf extracts a table from the header-excluded rows box
\* (rows_bbox present), no leading extracted row is discarded as a header row:
\* every extracted row that is a well-formed data row yields a transaction,
\* the first two rows of the table included.
C26_NoLeadingRowDiscarded ==
    ParsedFromRowsBox =>
        /\ kwargs.rows_only
        /\ Len(out) = DataRows(PreClean(table_rows), section_config, tax_year)

\* with rows_bbox present parse_rows is called with rows_only=False and the
\* transactions are those of the rows after the first two
RowsBoxDropsTwoRows ==
    ParsedFromRowsBox =>
        /\ ~kwargs.rows_only
        /\ Len(out) = DataRows(Slice(PreClean(table_rows), 3, Len(PreClean(table_rows))),
                               section_config, tax_year)

\* a table of the rows box whose first two rows are well-formed data rows has
\* been parsed and they are not among the transactions
FirstRowsLost ==
    /\ ParsedFromRowsBox
    /\ Len(table_rows) >= 2
    /\ DataRows(SubSeq(PreClean(table_rows), 1, 2), section_config, tax_year) = 2
    /\ Len(out) = DataRows(PreClean(table_rows), section_config, tax_year) - 2


(***************************************************************************)
(* Claims about the sections that configure no header_labels               *)
(***************************************************************************)
WithoutLabels(section) == ExpectedLabels(section) = <<>>

\* for a section without labels the table edges are not resolved, and a table
\* that was extracted below its header is stopped by the header-only check
UnlabelledIsStopped ==
    (AtSection /\ WithoutLabels(TheItem.section)) =>
        /\ get_table_edges(TheItem.section) = None
        /\ ~rows_bbox(TheItem)
        /\ TheItem.region.kind = "table" => RegionSkipped(TheItem)
        /\ (TheItem.region.kind = "table" /\ TheItem.region.table_rows # <<>>) =>
               ~validate_extracted_table(AsGrid(TheItem.region.table_rows),
                                         TheItem.section, "header_only")

\* parse_rows is called, and transactions are appended, for sections with
\* labels only
LabelledOnlyAppend ==
    /\ pdf_pc' = "parsing" /\ pdf_pc # "parsing" => ~WithoutLabels(section_config')
    /\ transactions' # transactions => ~WithoutLabels(page_section_positions[sec_i].section)

\* C28: for a section that configures no header_labels, parse_pdf never
\* appends a transaction: table edges are not resolved (get_table_edges returns
\* None), so the extracted rows go through the header-only post-extraction
\* check, which rejects every table when no labels are configured.
C28_UnlabelledSectionYieldsNothing ==
    /\ [](UnlabelledIsStopped)
    /\ [][LabelledOnlyAppend]_vars

\* the second page has a Payments table and, under it, a Purchases table of
\* four rows; Purchases has no labels in the profile: the walk is over with
\* the transaction of Payments only
C28_Witness ==
    /\ pdf_pc = "returned"
    /\ profile = ProfileAnchored
    /\ WithoutLabels(profile.sections.items[1])
    /\ pdf = Pdf(<<PageOfText, PagePaymentsAbove>>)
    /\ Len(transactions) = 1
    /\ transactions[1].section = "Payments"


(***************************************************************************)
(* Claims about get_table_footer_bbox                                      *)
(***************************************************************************)
FooterCalled == footer_returned # Pending
FooterFound == FooterCalled /\ footer_returned # None

\* the box lies in the search slice
InSlice(box) ==
    /\ search_area_bbox[1] <= box.x0 /\ box.x1 <= search_area_bbox[3]
    /\ search_area_bbox[2] <= box.top /\ box.bottom <= search_area_bbox[4]

\* the part inside the slice of a match of the footer text on the page
TextsInSlice ==
    {Clipped(footer_page.texts[i], search_area_bbox) :
        i \in {k \in 1..Len(footer_page.texts) : InCrop(footer_page.texts[k], search_area_bbox)}}

\* the segments of the slice that lie at the height y
SegmentsAt(y) ==
    {s \in LongSegments(SegmentsIn(footer_page.segments, search_area_bbox)) : s.top = y}

\* the rule line at the height y, from the left edge of the segment that
\* starts first to the right edge of the segment that starts last, lies within
\* the tolerance of the top of the text and spans the width of the text
RuleLineAt(y, text) ==
    /\ SegmentsAt(y) # {}
    /\ text.top - 5 <= y /\ y <= text.top + 2
    /\ \E a, b \in SegmentsAt(y) :
          /\ \A s \in SegmentsAt(y) : a.x0 <= s.x0 /\ s.x0 <= b.x0
          /\ a.x0 <= text.x0 /\ b.x1 >= text.x1
          /\ b.x1 - a.x0 > min_width
RuleLineNear(text) == \E y \in 0..footer_page.height : RuleLineAt(y, text)

\* the text lies in the corridor of the header
InCorridor(text) ==
    IF header_x_range = None THEN TRUE
    ELSE text.x0 >= header_x_range.v[1] /\ text.x1 <= header_x_range.v[2]

\* the text starts in the corridor of the header and ends in it or in the
\* left half of the page
InCorridorOrLeftHalf(text) ==
    IF header_x_range = None THEN TRUE
    ELSE /\ text.x0 >= header_x_range.v[1]
         /\ (text.x1 <= header_x_range.v[2] \/ 2 * text.x1 <= footer_page.width)

\* the matches that pass the gates, with one reading of the third gate or the
\* other
GatePassing(strict) ==
    {text \in TextsInSlice :
        /\ RuleLineNear(text)
        /\ IF strict THEN InCorridor(text) ELSE InCorridorOrLeftHalf(text)}

\* what the function returns, given the matches that pass the gates
FooterAsClaimed(passing) ==
    IF passing = {} THEN footer_returned = None
    ELSE /\ footer_returned # None
         /\ footer_returned.text_bbox # None /\ footer_returned.line_bbox # None
         /\ footer_returned.text_bbox \in passing
         /\ InSlice(footer_returned.text_bbox)
         /\ RuleLineAt(footer_returned.line_bbox.top, footer_returned.text_bbox)
         /\ \A text \in passing : footer_returned.text_bbox.top <= text.top

\* C25, as stated: get_table_footer_bbox returns a footer only if its text
\* match lies in the search slice, a horizontal rule line lies within the
\* vertical tolerance of the text's top and spans at least the text's own
\* width, and (when header_x_range is given) the text lies in the header's
\* horizontal corridor; a returned footer always has both text_bbox and
\* line_bbox set, among several gate-passing matches the one with the smallest
\* top is returned, and None is returned when none passes.
C25_FooterInCorridor == FooterCalled => FooterAsClaimed(GatePassing(TRUE))

\* C25, amended: get_table_footer_bbox returns a footer only if its text match lies in
\* the search slice, a horizontal rule line lies within the vertical tolerance
\* of the text's top and spans at least the text's own width, and (when
\* header_x_range is given) the text starts at or right of the header's left
\* edge and ends at or left of the header's right edge or of the middle of the
\* page; a returned footer always has both text_bbox and line_bbox set, among
\* several gate-passing matches the one with the smallest top is returned, and
\* None is returned when none passes.
C25_FooterGates == FooterCalled => FooterAsClaimed(GatePassing(FALSE))

\* two matches pass the gates, the first ends right of the header and left of
\* the middle of the page, the second is higher on the page and is returned
C25_Witness ==
    /\ FooterFound
    /\ header_x_range # None
    /\ Len(footer_page.texts) = 2
    /\ {footer_page.texts[1], footer_page.texts[2]} \subseteq GatePassing(FALSE)
    /\ footer_page.texts[1].x1 > header_x_range.v[2]
    /\ footer_page.texts[2].top < footer_page.texts[1].top
    /\ footer_returned.text_bbox = footer_page.texts[2]

(***************************************************************************)
(* The vertical window of a section (SpecWindow)                           *)
(***************************************************************************)
\* the window has passed its guard and is used for the strip
WindowUsed == win_pc \in {"presence", "edges", "extract"}

\* C23: for every section found on a page the window that is used satisfies
\* start_y < end_y <= max_y, max_y being the top of the next section header
\* or the height of the page: a footer never extends the window past it
C23_WindowWithinFloor ==
    WindowUsed => start_y < end_y /\ end_y <= max_y /\ end_y <= win_page.height

\* what the code keeps: the window that is used is more than 2 high, starts
\* at the bottom of the section header, ends at max_y without a footer and at
\* most 5 below max_y with one
WindowAsComputed ==
    WindowUsed =>
        /\ start_y = ThePosition.bottom
        /\ start_y + 2 < end_y
        /\ end_y <= max_y + 5
        /\ footer_bbox = None => end_y = max_y
        /\ strip_bbox[2] = start_y /\ strip_bbox[4] = end_y

\* a footer text that ends less than 5 above max_y: the window ends below it
WindowPastFloor == WindowUsed /\ footer_bbox # None /\ end_y > max_y

\* the footer text ends less than 5 above the bottom of the page: the strip
\* leaves the page and the crop of validate_table_presence raises
StripLeavesPage ==
    /\ win_pc = "raised"
    /\ strip_bbox # <<>>
    /\ strip_bbox[4] > win_page.height

(***************************************************************************)
(* The boxes passed to page.crop (SpecWindow)                              *)
(***************************************************************************)
NamedRoles == {"strip", "header_zone", "rows", "table"}

\* C24: every box passed to page.crop as the validation strip, the header
\* zone, the rows box or the fallback table box has x1 > x0 and bottom > top
C24_CropBoxesHaveArea ==
    \A k \in 1..Len(cropped) : cropped[k].role \in NamedRoles => HasArea(cropped[k].bbox)

\* what the code keeps: the strip, the rows box and the table box that
\* parse_pdf itself builds have an area and lie on the page
OwnBoxesHaveArea ==
    \A k \in 1..Len(cropped) :
        cropped[k].role \in {"strip", "rows", "table"} => HasArea(cropped[k].bbox)
ExtractionBoxOnPage ==
    \A k \in 1..Len(cropped) : cropped[k].role \in {"rows", "table"} => ~CropRaises(cropped[k])

\* the header zone of get_table_header_bbox without height, passed to crop
HeaderZoneWithoutHeight ==
    /\ win_pc = "raised"
    /\ cropped # <<>>
    /\ cropped[Len(cropped)].role = "header_zone"
    /\ cropped[Len(cropped)].bbox[4] = cropped[Len(cropped)].bbox[2]

\* the search area of the footer turned over: the next header starts above
\* the bottom of this one
FooterSearchTurnedOver ==
    /\ win_pc = "raised"
    /\ cropped # <<>>
    /\ cropped[Len(cropped)].role = "footer_search"
    /\ cropped[Len(cropped)].bbox[4] < cropped[Len(cropped)].bbox[2]

=============================================================================
